---- MODULE Spec2Model ----
(***************************************************************************)
(* The event-driven game-state machine of GameState.py.                    *)
(*                                                                         *)
(* One GameState object is modelled.  Its attributes are the variables;    *)
(* every handler of GameState.update_type is an operator that maps the     *)
(* object (a record `self`) to the object after the handler, with          *)
(* self.ok = FALSE as soon as one of the handler's assertions (or a        *)
(* Python exception: list.index, list.pop, dict lookup) fails.  An action  *)
(* is one call of GameState.update: it either commits the handler's        *)
(* result or aborts the reconstruction.                                    *)
(*                                                                         *)
(* Descriptions that the code hands to Parsers.*.parse are represented by  *)
(* their parse trees (records); fixed descriptions by records with a       *)
(* `text` field.  Runs are counted in fifths of a run, so that the 0.2 of  *)
(* blaserunning is exact.  Python's None is the string "None"; Python      *)
(* lists are sequences (index i of the code is i + 1 here).                *)
(***************************************************************************)
EXTENDS Integers, Sequences, FiniteSets, TLC

VARIABLES
    expects_lets_go, expects_play_ball, expects_half_inning_start,
    expects_batter_up, expects_pitch, expects_inning_end, expects_game_end,
    expects_reverberate,   \* [away, home] -> "False" | "True" | "None"
    away, home,            \* TeamState
    haunter,               \* PlayerState or NoPlayer
    game_update,           \* the running document
    emitted,               \* what the last accepted update() returned
    event,                 \* the type code of the last event accepted (-1: none)
    aborted,               \* an exception left update(): the game is abandoned
    refills,               \* history: player id -> free refills consumed
    plain,                 \* history: every event fed so far was a plain one
    stealing,              \* history: every event fed so far was of a
                           \* stealing game (see Stealing)
    interrupted,           \* history: [away, home] -> id of the lineup slot
                           \* at bat when a caught stealing ended the side's
                           \* half, until the side's next batter comes up
    called,                \* history: [away, home] -> a batter of the side
                           \* has come up since the side's last out
    game_scores            \* history: the game-score events accepted

vars == <<expects_lets_go, expects_play_ball, expects_half_inning_start,
          expects_batter_up, expects_pitch, expects_inning_end,
          expects_game_end, expects_reverberate, away, home, haunter,
          game_update, emitted, event, aborted, refills, plain,
          stealing, interrupted, called, game_scores>>

None == "None"

\* ------------------------------------------------------------ bounds

\* The feeds explored are the feeds of at most MaxPlayCount ticks, of events
\* of every kind, and the feeds of any length that carry only the plain
\* events of a game (let's go, play ball, half-inning start, batter up, a fly
\* out, a solo home run, inning end, game score) without snapshots.
MaxPlayCount == 9
\* A stealing game (the away batters walk and are caught stealing, the home
\* batters fly out) is explored for MaxStealingCount ticks.
MaxStealingCount == 25
\* No half-inning starts once `inning` (0-indexed) has reached MaxInning.
MaxInning == 9
\* A plain feed has home runs only while fewer than MaxRuns runs are scored,
\* and a feed has at most MaxGameScores game-score events.
MaxRuns == 2
MaxGameScores == 2
\* An event carries at most MaxScores score items, each item and each home
\* run or steal at most MaxExtras free-refill extras; a multi home run
\* announces at most MaxHomeRun runs.
MaxScores == 1
MaxExtras == 1
MaxHomeRun == 3

\* ------------------------------------------------------------ constants

\* _score_runs is called with 0.2, 1 and num_scores: a run is five fifths.
FifthsPerRun == 5

BASE_NUM_FOR_HIT ==
    [Single |-> 0, Double |-> 1, Triple |-> 2, Quadruple |-> 3]

BASE_NUM_FOR_NAME ==
    [first |-> 0, second |-> 1, third |-> 2, fourth |-> 3]

PITCHER_MOD_ORDER == <<"COFFEE_RALLY">>
BATTER_MOD_ORDER == <<"COFFEE_RALLY">>
BASERUNNER_MOD_ORDER == <<"BLASERUNNING", "COFFEE_RALLY">>

\* ------------------------------------------------------------ list helpers

\* `name = value`, then the rest of the block, which reads `name`
Bind(value, block(_)) == block(value)

Min(S) == CHOOSE x \in S : \A y \in S : x <= y

\* list.index(v), 1-based; 0 stands for the ValueError of an absent value.
Index(list, v) ==
    LET hits == {i \in 1..Len(list) : list[i] = v}
    IN  IF hits = {} THEN 0 ELSE Min(hits)

\* list.pop(i) for a 1-based i in range: the list without its i-th element.
Pop(list, i) ==
    [j \in 1..(Len(list) - 1) |-> IF j < i THEN list[j] ELSE list[j + 1]]

Range(list) == {list[i] : i \in 1..Len(list)}

\* ------------------------------------------------------------ players

PlayerState(id, name, mods, legacy_item) ==
    [id |-> id, name |-> name, mods |-> mods, legacy_item |-> legacy_item]

\* self.haunter = None, as a record (a record is only compared to a record)
NoPlayer == PlayerState(None, None, {}, None)

\* game_update = None: update() was called without a snapshot
NoSnapshot == [present |-> FALSE]

show_mod_from_list(mod_list, player) ==
    LET present == {i \in 1..Len(mod_list) : mod_list[i] \in player.mods}
    IN  IF present = {} THEN "" ELSE mod_list[Min(present)]

show_pitcher_mod(player) == show_mod_from_list(PITCHER_MOD_ORDER, player)
show_batter_mod(player) == show_mod_from_list(BATTER_MOD_ORDER, player)
show_runner_mod(player) == show_mod_from_list(BASERUNNER_MOD_ORDER, player)

\* The roster the directory service returns at the game's timestamp, and the
\* configuration the bootstrap updates carry.  Two players share a name
\* (the home pitcher and the away lead-off batter).
AwayLineup ==
    << PlayerState("a1", "Ann", {"COFFEE_RALLY"}, None),
       PlayerState("a2", "Bo", {"BLASERUNNING"}, "Bat") >>

HomeLineup ==
    << PlayerState("h1", "Cy", {}, None),
       PlayerState("h2", "Dee", {"COFFEE_RALLY", "BLASERUNNING"}, None) >>

AwayPitcher == PlayerState("ap", "Pat", {}, "")
HomePitcher == PlayerState("hp", "Ann", {"COFFEE_RALLY"}, "")

\* Player.load_one_at_time for the player a haunting event tags.
Ghost == PlayerState("g", "Gus", {}, None)

PlayerIds == {"a1", "a2", "h1", "h2", "ap", "hp", "g"}
Names == {"Ann", "Bo", "Cy", "Dee", "Pat", "Gus"}

\* awayOuts/homeOuts, awayStrikes/homeStrikes, awayBases/homeBases as
\* first_truthy finds them in the bootstrap updates.
Setups ==
    { [awayOuts |-> 1, homeOuts |-> 1, awayStrikes |-> 2, homeStrikes |-> 2,
       awayBases |-> 4, homeBases |-> 4],
      [awayOuts |-> 3, homeOuts |-> 2, awayStrikes |-> 2, homeStrikes |-> 3,
       awayBases |-> 4, homeBases |-> 5] }

TeamState(nickname, pitcher, lineup) ==
    [nickname |-> nickname, pitcher |-> pitcher, lineup |-> lineup,
     batter_index |-> -1]

advance_batter(team) ==
    LET next == team.batter_index + 1
    IN  [team EXCEPT !.batter_index =
            IF next >= Len(team.lineup) THEN 0 ELSE next]

\* ------------------------------------------------------------ the object

InitialGameUpdate(setup) ==
    [ phase |-> 2, inning |-> 0,
      awayOuts |-> setup.awayOuts, homeOuts |-> setup.homeOuts,
      awayBases |-> setup.awayBases, homeBases |-> setup.homeBases,
      awayStrikes |-> setup.awayStrikes, homeStrikes |-> setup.homeStrikes,
      awayTeamName |-> "Away Team", homeTeamName |-> "Home Team",
      awayScore |-> 0, homeScore |-> 0,
      finalized |-> FALSE, gameStart |-> FALSE, gameComplete |-> FALSE,
      playCount |-> 0,
      atBatBalls |-> 0, atBatStrikes |-> 0,
      awayBatter |-> None, homeBatter |-> None,
      awayBatterName |-> "", homeBatterName |-> "",
      awayBatterMod |-> "", homeBatterMod |-> "",
      awayPitcher |-> None, homePitcher |-> None,
      awayPitcherName |-> "", homePitcherName |-> "",
      awayPitcherMod |-> "", homePitcherMod |-> "",
      lastUpdate |-> [text |-> ""], scoreUpdate |-> 0,
      topOfInning |-> TRUE,
      baseRunners |-> <<>>, baseRunnerNames |-> <<>>,
      baseRunnerMods |-> <<>>, basesOccupied |-> <<>>,
      baserunnerCount |-> 0,
      gameStartPhase |-> -1, halfInningOuts |-> 0,
      topInningScore |-> 0, bottomInningScore |-> 0, halfInningScore |-> 0,
      awayTeamBatterCount |-> 0, homeTeamBatterCount |-> 0 ]

GameState(setup) ==
    [ ok |-> TRUE,
      returned |-> <<>>,
      expects_lets_go |-> TRUE,
      expects_play_ball |-> FALSE,
      expects_half_inning_start |-> FALSE,
      expects_batter_up |-> FALSE,
      expects_pitch |-> FALSE,
      expects_inning_end |-> FALSE,
      expects_game_end |-> FALSE,
      expects_reverberate |-> [home |-> "False", away |-> "False"],
      away |-> TeamState("Aways", AwayPitcher, AwayLineup),
      home |-> TeamState("Homes", HomePitcher, HomeLineup),
      haunter |-> NoPlayer,
      game_update |-> InitialGameUpdate(setup),
      refills |-> [p \in PlayerIds |-> 0] ]

\* The object as the variables hold it.
Self ==
    [ ok |-> TRUE,
      returned |-> <<>>,
      expects_lets_go |-> expects_lets_go,
      expects_play_ball |-> expects_play_ball,
      expects_half_inning_start |-> expects_half_inning_start,
      expects_batter_up |-> expects_batter_up,
      expects_pitch |-> expects_pitch,
      expects_inning_end |-> expects_inning_end,
      expects_game_end |-> expects_game_end,
      expects_reverberate |-> expects_reverberate,
      away |-> away,
      home |-> home,
      haunter |-> haunter,
      game_update |-> game_update,
      refills |-> refills ]

\* A failed assertion or a raised exception.
Raise(self) == [self EXCEPT !.ok = FALSE]

prefix(self) == IF self.game_update.topOfInning THEN "away" ELSE "home"
prefix_negate(self) == IF self.game_update.topOfInning THEN "home" ELSE "away"
top_or_bottom(self) == IF self.game_update.topOfInning THEN "top" ELSE "bottom"

batting_team(self) ==
    IF self.game_update.topOfInning THEN self.away ELSE self.home

fielding_team(self) ==
    IF self.game_update.topOfInning THEN self.home ELSE self.away

\* team_state.lineup[team_state.batter_index]: Python's negative index -k
\* is the k-th element from the end; outside [-len, len) it is an IndexError,
\* here NoPlayer, which the callers turn into Raise.
LineupAt(team, i) ==
    IF i >= 0 /\ i < Len(team.lineup) THEN team.lineup[i + 1]
    ELSE IF i < 0 /\ i >= -Len(team.lineup)
         THEN team.lineup[Len(team.lineup) + i + 1]
         ELSE NoPlayer

batter(self) ==
    IF self.haunter # NoPlayer
    THEN self.haunter
    ELSE LET team_state == batting_team(self)
         IN  LineupAt(team_state, team_state.batter_index)

SetBattingTeam(self, team_state) ==
    IF self.game_update.topOfInning
    THEN [self EXCEPT !.away = team_state]
    ELSE [self EXCEPT !.home = team_state]

SetFieldingTeam(self, team_state) ==
    IF self.game_update.topOfInning
    THEN [self EXCEPT !.home = team_state]
    ELSE [self EXCEPT !.away = team_state]

\* ------------------------------------------------------------ shared procedures

\* _remove_baserunner_by_index without `baserunnerCount -= 1`
_remove_baserunner_keeps_count(self, list_index) ==
    LET g == self.game_update
    IN  IF list_index < 1 \/ list_index > Len(g.baseRunners)
        THEN Raise(self)
        ELSE [self EXCEPT !.game_update =
                [@ EXCEPT !.baseRunners = Pop(@, list_index),
                          !.baseRunnerNames = Pop(@, list_index),
                          !.baseRunnerMods = Pop(@, list_index),
                          !.basesOccupied = Pop(@, list_index)]]

_remove_baserunner_by_index(self, list_index) ==
    LET g == self.game_update
    IN  IF \/ list_index < 1
           \/ list_index > Len(g.baseRunners)
           \/ list_index > Len(g.baseRunnerNames)
           \/ list_index > Len(g.baseRunnerMods)
           \/ list_index > Len(g.basesOccupied)
        THEN Raise(self)
        ELSE [self EXCEPT !.game_update =
                [@ EXCEPT !.baseRunners = Pop(@, list_index),
                          !.baseRunnerNames = Pop(@, list_index),
                          !.baseRunnerMods = Pop(@, list_index),
                          !.basesOccupied = Pop(@, list_index),
                          !.baserunnerCount = @ - 1]]

\* _score_runs with `-=` for `+=`
_score_runs_subtracts(self, runs) ==
    [self EXCEPT !.game_update =
        [@ EXCEPT ![prefix(self) \o "Score"] = @ - runs,
                  !.halfInningScore = @ - runs,
                  ![top_or_bottom(self) \o "InningScore"] = @ - runs]]

\* _score_runs without the line for the inning score of the half
_score_runs_skips_inning_score(self, runs) ==
    [self EXCEPT !.game_update =
        [@ EXCEPT ![prefix(self) \o "Score"] = @ + runs,
                  !.halfInningScore = @ + runs]]

\* runs: fifths of a run
_score_runs(self, runs) ==
    [self EXCEPT !.game_update =
        [@ EXCEPT ![prefix(self) \o "Score"] = @ + runs,
                  !.halfInningScore = @ + runs,
                  ![top_or_bottom(self) \o "InningScore"] = @ + runs]]

\* scoreUpdate: 0 is the empty string, n > 0 the text for n fifths of a run
\* ("1 Run scored!" for 5, "{n/5} Runs scored!" otherwise).
_record_runs(self, runs_scored) ==
    IF runs_scored = FifthsPerRun
    THEN [self EXCEPT !.game_update.scoreUpdate = FifthsPerRun]
    ELSE IF runs_scored # 0
         THEN [self EXCEPT !.game_update.scoreUpdate = runs_scored]
         ELSE self

\* _score_player that leaves the scoring runner on base
_score_player_stays_on_base(self, scoring_player_name) ==
    IF ~self.ok THEN self
    ELSE IF Index(self.game_update.baseRunnerNames, scoring_player_name) = 0
         THEN Raise(self)
         ELSE _score_runs(self, FifthsPerRun)

\* returns the object; the caller adds the 1 run the code returns
_score_player(self, scoring_player_name) ==
    IF ~self.ok THEN self
    ELSE Bind(Index(self.game_update.baseRunnerNames, scoring_player_name),
         LAMBDA index :
            IF index = 0 THEN Raise(self)
            ELSE Bind(_remove_baserunner_by_index(self, index),
                 LAMBDA removed :
                    IF ~removed.ok THEN removed
                    ELSE _score_runs(removed, FifthsPerRun)))

\* The loop of _player_to_base, from runner_i down to the first runner.
RECURSIVE AdvanceRunners(_, _, _)
AdvanceRunners(bases, runner_i, highest_occupied_base) ==
    IF runner_i = 0
    THEN bases
    ELSE LET advanced ==
                IF bases[runner_i] <= highest_occupied_base
                THEN [bases EXCEPT ![runner_i] = highest_occupied_base + 1]
                ELSE bases
         IN  AdvanceRunners(advanced, runner_i - 1, advanced[runner_i])

_player_to_base(self, player, base_num) ==
    LET g == self.game_update
        shoved == Append(g.basesOccupied, base_num)
    IN  [self EXCEPT !.game_update =
            [@ EXCEPT !.baseRunners = Append(@, player.id),
                      !.baseRunnerNames = Append(@, player.name),
                      !.baseRunnerMods = Append(@, show_runner_mod(player)),
                      !.basesOccupied =
                          AdvanceRunners(shoved, Len(shoved), -1),
                      !.baserunnerCount = @ + 1]]

\* _maybe_advance_baserunners keeping the running basesOccupied when the
\* snapshot's has another length
_maybe_advance_baserunners_tolerant(self, snapshot) ==
    IF ~self.ok THEN self
    ELSE IF ~snapshot.present THEN self
    ELSE IF Len(self.game_update.basesOccupied) # Len(snapshot.basesOccupied)
         THEN self
         ELSE [self EXCEPT !.game_update.basesOccupied = snapshot.basesOccupied]

_maybe_advance_baserunners(self, snapshot) ==
    IF ~self.ok THEN self
    ELSE IF ~snapshot.present THEN self
    ELSE IF Len(self.game_update.basesOccupied) # Len(snapshot.basesOccupied)
         THEN Raise(self)
         ELSE [self EXCEPT !.game_update.basesOccupied = snapshot.basesOccupied]

\* _end_atbat without `self.expects_batter_up = True`
_end_atbat_forgets_batter_up(self) ==
    LET p == prefix(self)
    IN  [self EXCEPT !.game_update =
                        [@ EXCEPT ![p \o "Batter"] = None,
                                  ![p \o "BatterName"] = "",
                                  ![p \o "BatterMod"] = "",
                                  !.atBatBalls = 0,
                                  !.atBatStrikes = 0],
                     !.expects_pitch = FALSE,
                     !.haunter = NoPlayer]

\* _end_atbat without the reset of atBatBalls and atBatStrikes
_end_atbat_keeps_count(self) ==
    LET p == prefix(self)
    IN  [self EXCEPT !.game_update =
                        [@ EXCEPT ![p \o "Batter"] = None,
                                  ![p \o "BatterName"] = "",
                                  ![p \o "BatterMod"] = ""],
                     !.expects_pitch = FALSE,
                     !.expects_batter_up = TRUE,
                     !.haunter = NoPlayer]

\* _end_atbat that blanks the batter fields of the other side
_end_atbat_blanks_fielders(self) ==
    LET p == prefix_negate(self)
    IN  [self EXCEPT !.game_update =
                        [@ EXCEPT ![p \o "Batter"] = None,
                                  ![p \o "BatterName"] = "",
                                  ![p \o "BatterMod"] = "",
                                  !.atBatBalls = 0,
                                  !.atBatStrikes = 0],
                     !.expects_pitch = FALSE,
                     !.expects_batter_up = TRUE,
                     !.haunter = NoPlayer]

_end_atbat(self) ==
    LET p == prefix(self)
    IN  [self EXCEPT !.game_update =
                        [@ EXCEPT ![p \o "Batter"] = None,
                                  ![p \o "BatterName"] = "",
                                  ![p \o "BatterMod"] = "",
                                  !.atBatBalls = 0,
                                  !.atBatStrikes = 0],
                     !.expects_pitch = FALSE,
                     !.expects_batter_up = TRUE,
                     !.haunter = NoPlayer]

_end_game(self) ==
    [self EXCEPT !.game_update =
                    [@ EXCEPT !.topInningScore = 0,
                              !.bottomInningScore = 0,
                              !.halfInningScore = 0,
                              !.phase = 7],
                 !.expects_pitch = FALSE,
                 !.expects_game_end = TRUE]

\* _end_half_inning without `self.expects_batter_up = False`
_end_half_inning_expects_batter(self, for_batter) ==
    Bind(_end_atbat(self), LAMBDA ended :
    Bind([ended EXCEPT !.game_update =
            [@ EXCEPT !.baseRunners = <<>>,
                      !.baseRunnerNames = <<>>,
                      !.baseRunnerMods = <<>>,
                      !.basesOccupied = <<>>,
                      !.baserunnerCount = 0,
                      !.halfInningOuts = 0,
                      !.phase = 3,
                      !.topInningScore =
                          IF top_or_bottom(self) = "bottom" THEN 0 ELSE @,
                      !.bottomInningScore =
                          IF top_or_bottom(self) = "bottom" THEN 0 ELSE @,
                      !.halfInningScore =
                          IF top_or_bottom(self) = "bottom" THEN 0 ELSE @]],
         LAMBDA cleared :
    Bind(IF for_batter
         THEN cleared
         ELSE SetBattingTeam(
                [cleared EXCEPT
                    !.game_update[prefix(self) \o "TeamBatterCount"] = @ - 1],
                [batting_team(cleared) EXCEPT !.batter_index = @ - 1]),
         LAMBDA counted :
    Bind(counted, LAMBDA s :
        IF /\ s.game_update.inning >= 8
           /\ s.game_update[prefix(s) \o "Score"]
                < s.game_update[prefix_negate(s) \o "Score"]
        THEN _end_game(s)
        ELSE IF s.game_update.topOfInning
             THEN [s EXCEPT !.expects_half_inning_start = TRUE]
             ELSE [s EXCEPT !.expects_inning_end = TRUE]))))

\* _end_half_inning ending the game when the batting team is not ahead
\* (<= for <)
_end_half_inning_ends_tied(self, for_batter) ==
    Bind(_end_atbat(self), LAMBDA ended :
    Bind([ended EXCEPT !.game_update =
            [@ EXCEPT !.baseRunners = <<>>,
                      !.baseRunnerNames = <<>>,
                      !.baseRunnerMods = <<>>,
                      !.basesOccupied = <<>>,
                      !.baserunnerCount = 0,
                      !.halfInningOuts = 0,
                      !.phase = 3,
                      !.topInningScore =
                          IF top_or_bottom(self) = "bottom" THEN 0 ELSE @,
                      !.bottomInningScore =
                          IF top_or_bottom(self) = "bottom" THEN 0 ELSE @,
                      !.halfInningScore =
                          IF top_or_bottom(self) = "bottom" THEN 0 ELSE @]],
         LAMBDA cleared :
    Bind(IF for_batter
         THEN cleared
         ELSE SetBattingTeam(
                [cleared EXCEPT
                    !.game_update[prefix(self) \o "TeamBatterCount"] = @ - 1],
                [batting_team(cleared) EXCEPT !.batter_index = @ - 1]),
         LAMBDA counted :
    Bind([counted EXCEPT !.expects_batter_up = FALSE], LAMBDA s :
        IF /\ s.game_update.inning >= 8
           /\ s.game_update[prefix(s) \o "Score"]
                <= s.game_update[prefix_negate(s) \o "Score"]
        THEN _end_game(s)
        ELSE IF s.game_update.topOfInning
             THEN [s EXCEPT !.expects_half_inning_start = TRUE]
             ELSE [s EXCEPT !.expects_inning_end = TRUE]))))

_end_half_inning(self, for_batter) ==
    Bind(_end_atbat(self), LAMBDA ended :
    Bind([ended EXCEPT !.game_update =
            [@ EXCEPT !.baseRunners = <<>>,
                      !.baseRunnerNames = <<>>,
                      !.baseRunnerMods = <<>>,
                      !.basesOccupied = <<>>,
                      !.baserunnerCount = 0,
                      !.halfInningOuts = 0,
                      !.phase = 3,
                      !.topInningScore =
                          IF top_or_bottom(self) = "bottom" THEN 0 ELSE @,
                      !.bottomInningScore =
                          IF top_or_bottom(self) = "bottom" THEN 0 ELSE @,
                      !.halfInningScore =
                          IF top_or_bottom(self) = "bottom" THEN 0 ELSE @]],
         LAMBDA cleared :
    Bind(IF for_batter
         THEN cleared
         ELSE SetBattingTeam(
                [cleared EXCEPT
                    !.game_update[prefix(self) \o "TeamBatterCount"] = @ - 1],
                [batting_team(cleared) EXCEPT !.batter_index = @ - 1]),
         LAMBDA counted :
    Bind([counted EXCEPT !.expects_batter_up = FALSE], LAMBDA s :
        IF /\ s.game_update.inning >= 8
           /\ s.game_update[prefix(s) \o "Score"]
                < s.game_update[prefix_negate(s) \o "Score"]
        THEN _end_game(s)
        ELSE IF s.game_update.topOfInning
             THEN [s EXCEPT !.expects_half_inning_start = TRUE]
             ELSE [s EXCEPT !.expects_inning_end = TRUE]))))

\* _update_out with the reverberation noted but TeamBatterCount kept
_update_out_keeps_batter_count(self, snapshot, for_batter) ==
    IF ~self.ok THEN self
    ELSE
    Bind([self EXCEPT !.game_update.halfInningOuts = @ + 1], LAMBDA counted :
    Bind(prefix(counted), LAMBDA p :
    Bind(IF counted.game_update.halfInningOuts >=
                counted.game_update[p \o "Outs"]
         THEN _end_half_inning(counted, for_batter)
         ELSE IF for_batter THEN _end_atbat(counted) ELSE counted,
         LAMBDA s :
        IF ~snapshot.present
        THEN [s EXCEPT !.expects_reverberate[p] = "None"]
        ELSE Bind(s.game_update[p \o "TeamBatterCount"] -
                        snapshot[p \o "TeamBatterCount"],
             LAMBDA tbc_diff :
                IF tbc_diff # 0
                THEN IF tbc_diff # 1
                     THEN Raise(s)
                     ELSE [s EXCEPT
                             !.expects_reverberate[p] = "True"]
                ELSE [s EXCEPT !.expects_reverberate[p] = "False"]))))

_update_out(self, snapshot, for_batter) ==
    IF ~self.ok THEN self
    ELSE
    Bind([self EXCEPT !.game_update.halfInningOuts = @ + 1], LAMBDA counted :
    Bind(prefix(counted), LAMBDA p :
    Bind(IF counted.game_update.halfInningOuts >=
                counted.game_update[p \o "Outs"]
         THEN _end_half_inning(counted, for_batter)
         ELSE IF for_batter THEN _end_atbat(counted) ELSE counted,
         LAMBDA s :
        IF ~snapshot.present
        THEN [s EXCEPT !.expects_reverberate[p] = "None"]
        ELSE Bind(s.game_update[p \o "TeamBatterCount"] -
                        snapshot[p \o "TeamBatterCount"],
             LAMBDA tbc_diff :
                IF tbc_diff # 0
                THEN IF tbc_diff # 1
                     THEN Raise(s)
                     ELSE [s EXCEPT
                             !.expects_reverberate[p] = "True",
                             !.game_update[p \o "TeamBatterCount"] = @ - 1]
                ELSE [s EXCEPT !.expects_reverberate[p] = "False"]))))

\* player.mods.remove(mod) with the mod present, without it
mods_remove_keeps(player, mod) == player

\* player.mods.remove(mod), the mod being in the set
mods_remove(player, mod) == [player EXCEPT !.mods = @ \ {mod}]

\* One parsed_sub_item of _apply_scoring_extras' loop.
_apply_scoring_extra(self, parsed_sub_item) ==
    IF ~self.ok THEN self
    ELSE
    LET parsed_name == parsed_sub_item.children[1]
        parsed_name2 == parsed_sub_item.children[2]
        g == self.game_update
        refilled == [self EXCEPT !.game_update.halfInningOuts = @ - 1]
        pitcher == fielding_team(self).pitcher
        lineup == batting_team(self).lineup
        possible_refillers ==
            {i \in 1..Len(lineup) :
                /\ lineup[i].name = parsed_name
                /\ "COFFEE_RALLY" \in lineup[i].mods}
    IN  IF parsed_sub_item.data # "use_free_refill" THEN Raise(self)
        ELSE IF parsed_name # parsed_name2 THEN Raise(self)
        ELSE IF batter(self) = NoPlayer THEN Raise(self)
        ELSE IF ~ \/ parsed_name = batter(self).name
                  \/ parsed_name = pitcher.name
                  \/ parsed_name \in Range(g.baseRunnerNames)
             THEN Raise(self)
        ELSE IF pitcher.name = parsed_name /\ "COFFEE_RALLY" \in pitcher.mods
             THEN Bind(mods_remove(pitcher, "COFFEE_RALLY"),
                  LAMBDA drained :
                    [SetFieldingTeam(refilled,
                        [fielding_team(self) EXCEPT !.pitcher = drained])
                     EXCEPT
                         !.game_update[prefix_negate(self) \o "PitcherMod"] =
                             show_pitcher_mod(drained),
                         !.refills[pitcher.id] = @ + 1])
        ELSE IF Cardinality(possible_refillers) # 1 THEN Raise(refilled)
        ELSE Bind(CHOOSE i \in possible_refillers : TRUE, LAMBDA i :
             Bind(mods_remove(lineup[i], "COFFEE_RALLY"),
                  LAMBDA refiller :
             Bind(SetBattingTeam(refilled,
                     [batting_team(self) EXCEPT !.lineup[i] = refiller]),
                  LAMBDA s :
             Bind(IF batter(s).id = refiller.id
                  THEN [s EXCEPT
                          !.game_update[prefix(self) \o "BatterMod"] =
                              show_batter_mod(refiller)]
                  ELSE s,
                  LAMBDA shown :
             Bind({runner_i \in 1..Len(g.baseRunners) :
                        g.baseRunners[runner_i] = refiller.id},
                  LAMBDA on_base :
                IF \E runner_i \in on_base : runner_i > Len(g.baseRunnerMods)
                THEN Raise(shown)
                ELSE [shown EXCEPT
                        !.game_update.baseRunnerMods =
                            [runner_i \in 1..Len(@) |->
                                IF runner_i \in on_base
                                THEN show_runner_mod(refiller)
                                ELSE @[runner_i]],
                        !.refills[refiller.id] = @ + 1])))))

RECURSIVE _apply_scoring_extras(_, _)
_apply_scoring_extras(self, parsed_extras) ==
    IF ~self.ok \/ parsed_extras = <<>>
    THEN self
    ELSE _apply_scoring_extras(
            _apply_scoring_extra(self, Head(parsed_extras)),
            Tail(parsed_extras))

\* The loop of _update_scores; runs_scored is the accumulator (fifths).
RECURSIVE ScoreItems(_, _, _)
ScoreItems(self, parsed_rest, runs_scored) ==
    IF ~self.ok THEN self
    ELSE IF parsed_rest = <<>> THEN _record_runs(self, runs_scored)
    ELSE LET parsed_item == Head(parsed_rest)
         IN  IF parsed_item.data \notin {"score", "sacrifice"}
             THEN Raise(self)
             ELSE ScoreItems(
                     _score_player(
                         _apply_scoring_extras(self, parsed_item.extras),
                         parsed_item.name),
                     Tail(parsed_rest),
                     runs_scored + FifthsPerRun)

_update_scores(self, parsed_rest) == ScoreItems(self, parsed_rest, 0)

\* ------------------------------------------------------------ descriptions

\* A fixed description.
Text(t) == [text |-> t]

\* f"{text}. {balls}-{strikes}"
CountText(text, balls, strikes) ==
    [text |-> text, balls |-> balls, strikes |-> strikes]

\* f"{top_or_bottom} of {inning}, {team_name} batting."
HalfInningText(half, inning, team_name) ==
    [text |-> "of, batting.", half |-> half, inning |-> inning,
     team_name |-> team_name]

\* f"Inning {inning} is now an Outing."
OutingText(inning) == [text |-> "Inning is now an Outing.", inning |-> inning]

\* f"{first_text}, {second_text}" of update_game_score, each text a
\* nickname and a score
ScoreText(nickname1, score1, nickname2, score2) ==
    [text |-> "game score", first |-> <<nickname1, score1>>,
     second |-> <<nickname2, score2>>]

\* Player.load_one_at_time(feed_event['playerTags'][0], ...) and
\* PlayerState.from_player: the directory knows the players of both rosters
\* and the ghost.
from_player(player_id) ==
    CHOOSE p \in Range(AwayLineup) \cup Range(HomeLineup)
                    \cup {AwayPitcher, HomePitcher, Ghost} : p.id = player_id

\* ------------------------------------------------------------ handlers

update_lets_go(self, feed_event, snapshot) ==
    IF ~self.expects_lets_go THEN Raise(self)
    ELSE IF feed_event.description # Text("Let's Go!") THEN Raise(self)
    ELSE [self EXCEPT
            !.expects_lets_go = FALSE,
            !.expects_play_ball = TRUE,
            !.game_update =
                [@ EXCEPT !.lastUpdate = Text("Let's Go!"),
                          !.gameStart = TRUE,
                          !.phase = 1,
                          !.awayPitcher = self.away.pitcher.id,
                          !.awayPitcherName = self.away.pitcher.name,
                          !.awayPitcherMod = show_pitcher_mod(self.away.pitcher),
                          !.awayTeamBatterCount = -1,
                          !.homePitcher = self.home.pitcher.id,
                          !.homePitcherName = self.home.pitcher.name,
                          !.homePitcherMod = show_pitcher_mod(self.home.pitcher),
                          !.homeTeamBatterCount = -1]]

\* the running document is the special one
update_play_ball_blanks_state(self, feed_event, snapshot) ==
    IF ~self.expects_play_ball THEN Raise(self)
    ELSE IF feed_event.description # Text("Play ball!") THEN Raise(self)
    ELSE LET special_game_update ==
                [self.game_update EXCEPT !.phase = 2,
                                         !.inning = -1,
                                         !.lastUpdate = Text("Play ball!"),
                                         !.topOfInning = FALSE,
                                         !.playCount = @ + 1,
                                         !.awayPitcher = None,
                                         !.awayPitcherName = "",
                                         !.awayPitcherMod = "",
                                         !.homePitcher = None,
                                         !.homePitcherName = "",
                                         !.homePitcherMod = "",
                                         !.homeTeamBatterCount = -1]
         IN  [self EXCEPT !.expects_play_ball = FALSE,
                          !.expects_half_inning_start = TRUE,
                          !.game_update = special_game_update,
                          !.returned = <<special_game_update>>]

update_play_ball(self, feed_event, snapshot) ==
    IF ~self.expects_play_ball THEN Raise(self)
    ELSE IF feed_event.description # Text("Play ball!") THEN Raise(self)
    ELSE LET s == [self EXCEPT
                    !.expects_play_ball = FALSE,
                    !.expects_half_inning_start = TRUE,
                    !.game_update =
                        [@ EXCEPT !.phase = 2,
                                  !.inning = -1,
                                  !.lastUpdate = Text("Play ball!"),
                                  !.topOfInning = FALSE,
                                  !.playCount = @ + 1]]
             special_game_update ==
                [s.game_update EXCEPT !.awayPitcher = None,
                                      !.awayPitcherName = "",
                                      !.awayPitcherMod = "",
                                      !.homePitcher = None,
                                      !.homePitcherName = "",
                                      !.homePitcherMod = "",
                                      !.homeTeamBatterCount = -1]
         IN  [s EXCEPT !.returned = <<special_game_update>>]

\* update_half_inning_start that counts an inning for every half
update_half_inning_start_counts_halves(self, feed_event, snapshot) ==
    IF ~self.expects_half_inning_start THEN Raise(self)
    ELSE
    LET g == self.game_update
        started ==
            [g EXCEPT
                !.phase = 6,
                !.gameStartPhase = IF g.inning = -1 THEN 10 ELSE @ + 1,
                !.inning = @ + 1,
                !.topOfInning = ~g.topOfInning,
                !.halfInningScore = 0]
        s == [self EXCEPT !.game_update = started]
        description ==
            HalfInningText(IF started.topOfInning THEN "Top" ELSE "Bottom",
                           started.inning + 1,
                           started[prefix(s) \o "TeamName"])
    IN  IF feed_event.description # description THEN Raise(s)
        ELSE [s EXCEPT !.game_update.lastUpdate = description,
                       !.expects_half_inning_start = FALSE,
                       !.expects_batter_up = TRUE]

update_half_inning_start(self, feed_event, snapshot) ==
    IF ~self.expects_half_inning_start THEN Raise(self)
    ELSE
    LET g == self.game_update
        started ==
            [g EXCEPT
                !.phase = 6,
                !.gameStartPhase =
                    IF g.topOfInning THEN @
                    ELSE IF g.inning = -1 THEN 10 ELSE @ + 1,
                !.inning = IF g.topOfInning THEN @ ELSE @ + 1,
                !.topOfInning = ~g.topOfInning,
                !.halfInningScore = 0]
        s == [self EXCEPT !.game_update = started]
        description ==
            HalfInningText(IF started.topOfInning THEN "Top" ELSE "Bottom",
                           started.inning + 1,
                           started[prefix(s) \o "TeamName"])
    IN  IF feed_event.description # description THEN Raise(s)
        ELSE [s EXCEPT !.game_update.lastUpdate = description,
                       !.expects_half_inning_start = FALSE,
                       !.expects_batter_up = TRUE]

\* feed_event.description is the tree of Parsers.batter_up:
\*   inhabiting: <<>> or << <<haunter_name, haunted_name>> >>
\*   batter_up:  <<batter_name, team_name>>
\*   wielding:   the item names of the trailing `wielding` children
update_batter_up(self, feed_event, snapshot) ==
    IF ~self.expects_batter_up THEN Raise(self)
    ELSE
    LET parsed == feed_event.description
        inhabiting == parsed.inhabiting # <<>>
        p == prefix(self)
    IN
    Bind(IF self.expects_reverberate[p] # "True"
         THEN SetBattingTeam(self, advance_batter(batting_team(self)))
         ELSE self,
         LAMBDA advanced :
    Bind(batting_team(advanced), LAMBDA team_state :
    Bind(IF inhabiting /\ feed_event.playerTags # <<>>
         THEN from_player(feed_event.playerTags[1]) ELSE NoPlayer,
         LAMBDA loaded :
    Bind(IF inhabiting THEN [advanced EXCEPT !.haunter = loaded]
         ELSE advanced,
         LAMBDA haunted :
    Bind(batter(haunted), LAMBDA batter_ :
        IF inhabiting /\ feed_event.playerTags = <<>> THEN Raise(advanced)
        ELSE IF inhabiting /\ parsed.inhabiting[1][1] # loaded.name
             THEN Raise(advanced)
        ELSE IF inhabiting /\ batter(advanced) = NoPlayer THEN Raise(advanced)
        ELSE IF inhabiting /\ parsed.inhabiting[1][2] # batter(advanced).name
             THEN Raise(advanced)
        ELSE IF batter_ = NoPlayer THEN Raise(haunted)
        ELSE IF team_state.nickname # parsed.batter_up[2] THEN Raise(haunted)
        ELSE IF batter_.name # parsed.batter_up[1] THEN Raise(haunted)
        ELSE IF \E i \in 1..Len(parsed.wielding) :
                    parsed.wielding[i] # batter_.legacy_item
             THEN Raise(haunted)
        ELSE [haunted EXCEPT
                !.game_update =
                    [@ EXCEPT ![p \o "Batter"] = batter_.id,
                              ![p \o "BatterName"] = batter_.name,
                              ![p \o "BatterMod"] = show_batter_mod(batter_),
                              !.lastUpdate = feed_event.description,
                              ![p \o "TeamBatterCount"] = @ + 1],
                !.expects_batter_up = FALSE,
                !.expects_pitch = TRUE])))))

\* The for/else of _update_count: the description must be one of the texts
\* with the current count.
_update_count(self, feed_event, text_options) ==
    LET balls == self.game_update.atBatBalls
        strikes == self.game_update.atBatStrikes
        matching == {i \in 1..Len(text_options) :
                        feed_event.description =
                            CountText(text_options[i], balls, strikes)}
    IN  IF matching = {} THEN Raise(self)
        ELSE [self EXCEPT !.game_update.lastUpdate = feed_event.description]

update_ball(self, feed_event, snapshot) ==
    IF ~self.expects_pitch THEN Raise(self)
    ELSE _update_count([self EXCEPT !.game_update.atBatBalls = @ + 1],
                       feed_event, <<"Ball">>)

update_foul_ball(self, feed_event, snapshot) ==
    IF ~self.expects_pitch THEN Raise(self)
    ELSE LET g == self.game_update
         IN  _update_count(
                IF g.atBatStrikes + 1 < g[prefix(self) \o "Strikes"]
                THEN [self EXCEPT !.game_update.atBatStrikes = @ + 1]
                ELSE self,
                feed_event, <<"Foul Ball">>)

update_strike_zapped(self, feed_event, snapshot) ==
    LET description == Text("The Electricity zaps a strike away!")
    IN  IF ~self.expects_pitch THEN Raise(self)
        ELSE IF feed_event.description # description THEN Raise(self)
        ELSE IF ~(self.game_update.atBatStrikes > 0) THEN Raise(self)
        ELSE [self EXCEPT !.game_update.lastUpdate = description,
                          !.game_update.atBatStrikes = @ - 1]

update_strike(self, feed_event, snapshot) ==
    IF ~self.expects_pitch THEN Raise(self)
    ELSE _update_count([self EXCEPT !.game_update.atBatStrikes = @ + 1],
                       feed_event,
                       <<"Strike, swinging", "Strike, looking",
                         "Strike, flinching">>)

_update_walk_generic(self, batter_) ==
    _end_atbat(_player_to_base(self, batter_, 0))

\* update_walk that copies the bases of the snapshot, as update_hit does
update_walk_advances(self, feed_event, snapshot) ==
    LET parsed == feed_event.description
        batter_ == batter(self)
    IN  IF ~self.expects_pitch THEN Raise(self)
        ELSE IF batter_ = NoPlayer THEN Raise(self)
        ELSE IF parsed.walk[1] # batter_.name THEN Raise(self)
        ELSE Bind(_update_scores(_update_walk_generic(self, batter_),
                                 parsed.rest),
             LAMBDA s :
                IF ~s.ok THEN s
                ELSE _maybe_advance_baserunners(
                        [s EXCEPT !.game_update.lastUpdate =
                                        feed_event.description],
                        snapshot))

\* tree of Parsers.walk: walk: <<walker_name>>, rest: the score items
update_walk(self, feed_event, snapshot) ==
    LET parsed == feed_event.description
        batter_ == batter(self)
    IN  IF ~self.expects_pitch THEN Raise(self)
        ELSE IF batter_ = NoPlayer THEN Raise(self)
        ELSE IF parsed.walk[1] # batter_.name THEN Raise(self)
        ELSE Bind(_update_scores(_update_walk_generic(self, batter_),
                                 parsed.rest),
             LAMBDA s :
                IF ~s.ok THEN s
                ELSE [s EXCEPT
                        !.game_update.lastUpdate = feed_event.description])

\* update_strikeout without the assertion on the count of a standard
\* strikeout
update_strikeout_at_any_count(self, feed_event, snapshot) ==
    LET parsed == feed_event.description
        batter_ == batter(self)
        g == self.game_update
    IN  IF ~self.expects_pitch THEN Raise(self)
        ELSE IF batter_ = NoPlayer THEN Raise(self)
        ELSE IF parsed.data = "strikeout" /\ batter_.name # parsed.children[1]
             THEN Raise(self)
        ELSE IF parsed.data # "strikeout" /\ parsed.data # "charm_strikeout"
             THEN Raise(self)
        ELSE IF parsed.data = "charm_strikeout" /\
                    \/ parsed.children[1] # fielding_team(self).pitcher.name
                    \/ parsed.children[2] # batter_.name
                    \/ parsed.children[3] # batter_.name
                    \/ parsed.children[4] # g[prefix(self) \o "Strikes"]
             THEN Raise(self)
        ELSE _update_out(
                [self EXCEPT !.game_update.lastUpdate = feed_event.description],
                snapshot, TRUE)

\* tree of Parsers.strikeout: data "strikeout" with children
\* <<name, strikeout_type>>, or data "charm_strikeout" with children
\* <<charming, charmed, charmed2, swings>>
update_strikeout(self, feed_event, snapshot) ==
    LET parsed == feed_event.description
        batter_ == batter(self)
        g == self.game_update
    IN  IF ~self.expects_pitch THEN Raise(self)
        ELSE IF batter_ = NoPlayer THEN Raise(self)
        ELSE IF parsed.data = "strikeout" /\
                    \/ batter_.name # parsed.children[1]
                    \/ g.atBatStrikes + 1 # g[prefix(self) \o "Strikes"]
             THEN Raise(self)
        ELSE IF parsed.data # "strikeout" /\ parsed.data # "charm_strikeout"
             THEN Raise(self)
        ELSE IF parsed.data = "charm_strikeout" /\
                    \/ parsed.children[1] # fielding_team(self).pitcher.name
                    \/ parsed.children[2] # batter_.name
                    \/ parsed.children[3] # batter_.name
                    \/ parsed.children[4] # g[prefix(self) \o "Strikes"]
             THEN Raise(self)
        ELSE _update_out(
                [self EXCEPT !.game_update.lastUpdate = feed_event.description],
                snapshot, TRUE)

\* every runner is taken off the bases, whatever the home run announces
RemoveEveryRunner(self, n) ==
    IF ~self.ok THEN self
    ELSE [self EXCEPT !.game_update =
            [@ EXCEPT !.baseRunners = <<>>, !.baseRunnerNames = <<>>,
                      !.baseRunnerMods = <<>>, !.basesOccupied = <<>>,
                      !.baserunnerCount = 0]]

RECURSIVE RemoveFirstRunners(_, _)
RemoveFirstRunners(self, n) ==
    IF ~self.ok \/ n <= 0 THEN self
    ELSE RemoveFirstRunners(_remove_baserunner_by_index(self, 1), n - 1)

\* tree of Parsers.home_run: hr: <<batter_name>>, hr_type: data "solo_hr",
\* or data "multi_hr" with count; rest: the use_free_refill extras
update_home_run(self, feed_event, snapshot) ==
    LET parsed == feed_event.description
        num_scores == IF parsed.hr_type.data = "solo_hr"
                      THEN 1 ELSE parsed.hr_type.count
    IN  IF ~self.expects_pitch THEN Raise(self)
        ELSE IF parsed.hr_type.data \notin {"solo_hr", "multi_hr"}
             THEN Raise(self)
        ELSE Bind(RemoveFirstRunners(
                        _apply_scoring_extras(self, parsed.rest),
                        num_scores - 1),
             LAMBDA cleared :
                IF ~cleared.ok THEN cleared
                ELSE IF Len(cleared.game_update.baseRunners) # 0
                     THEN Raise(cleared)
                ELSE _end_atbat(
                        _record_runs(
                            _score_runs(
                                [cleared EXCEPT !.game_update.lastUpdate =
                                                    feed_event.description],
                                num_scores * FifthsPerRun),
                            num_scores * FifthsPerRun)))

\* tree of Parsers.hit: hit: <<batter_name, base_name>>, heating_up: <<>> or
\* <<name>>, rest: the score items
update_hit(self, feed_event, snapshot) ==
    LET parsed == feed_event.description
        batter_name == parsed.hit[1]
        base_name == parsed.hit[2]
        batter_ == batter(self)
    IN  IF ~self.expects_pitch THEN Raise(self)
        ELSE IF parsed.heating_up # <<>> /\ parsed.heating_up[1] # batter_name
             THEN Raise(self)
        ELSE IF batter_ = NoPlayer THEN Raise(self)
        ELSE IF batter_name # batter_.name THEN Raise(self)
        ELSE Bind(_update_scores(self, parsed.rest), LAMBDA scored :
            IF ~scored.ok THEN scored
            ELSE IF base_name \notin DOMAIN BASE_NUM_FOR_HIT
                 THEN Raise(scored)
            \* `batter` is the PlayerState object itself: it is put on base
            \* with the mods a free refill of _update_scores has left it
            ELSE _maybe_advance_baserunners(
                    _end_atbat(
                        _player_to_base(
                            [scored EXCEPT !.game_update.lastUpdate =
                                                feed_event.description],
                            batter(scored), BASE_NUM_FOR_HIT[base_name])),
                    snapshot))

\* _update_fielding_out with the first out of a double play not counted
_update_fielding_out_single_out(self, feed_event, snapshot) ==
    LET parsed == feed_event.description
        batter_ == batter(self)
        g == self.game_update
        p == prefix(self)
        batter_name ==
            IF parsed.data = "fielders_choice"
            THEN parsed.reaches[1] ELSE parsed.out[1]
        parsed_scores ==
            IF parsed.data = "double_play_full" THEN <<>> ELSE parsed.scores
    IN  IF ~self.expects_pitch THEN Raise(self)
        ELSE IF batter_ = NoPlayer THEN Raise(self)
        ELSE
        \* the branch of the if/elif/else, up to `assert batter_name == ...`
        Bind(IF parsed.data \in {"ground_out_full", "flyout_full"}
             THEN IF \E i \in 1..Len(fielding_team(self).lineup) :
                        fielding_team(self).lineup[i].name = parsed.out[2]
                  THEN self ELSE Raise(self)
             ELSE IF parsed.data = "double_play_full"
             THEN Bind(self,
                  LAMBDA counted :
                    IF ~(counted.game_update.halfInningOuts < g[p \o "Outs"])
                    THEN Raise(counted)
                    ELSE Bind(_update_scores(counted, parsed.scores),
                         LAMBDA scored :
                            IF ~scored.ok THEN scored
                            ELSE IF scored.game_update.halfInningOuts + 1 >=
                                        scored.game_update[p \o "Outs"]
                                 THEN scored
                            ELSE IF ~snapshot.present THEN Raise(scored)
                            ELSE Bind(Range(scored.game_update.baseRunners) \
                                        Range(snapshot.baseRunners),
                                 LAMBDA set_diff :
                                    IF Cardinality(set_diff) # 1
                                    THEN Raise(scored)
                                    ELSE _remove_baserunner_by_index(scored,
                                            Index(scored.game_update.baseRunners,
                                                  CHOOSE id \in set_diff :
                                                        TRUE)))))
             ELSE IF parsed.data = "fielders_choice"
             THEN Bind(Index(g.baseRunnerNames, parsed.out[1]),
                  LAMBDA runner_i :
                    IF runner_i = 0 THEN Raise(self)
                    ELSE Bind(_remove_baserunner_by_index(self, runner_i),
                         LAMBDA removed :
                            IF ~removed.ok THEN removed
                            ELSE _player_to_base(removed, batter_, 0)))
             ELSE Raise(self),
             LAMBDA branch :
        IF ~branch.ok THEN branch
        ELSE IF batter_name # batter_.name THEN Raise(branch)
        ELSE Bind(_update_scores(branch, parsed_scores), LAMBDA scored :
            IF ~scored.ok THEN scored
            ELSE _maybe_advance_baserunners(
                    _update_out(
                        [scored EXCEPT !.game_update.lastUpdate =
                                            feed_event.description],
                        snapshot, TRUE),
                    snapshot)))

\* tree of Parsers.fielding_out:
\*   data "ground_out_full" | "flyout_full": out: <<batter_name, fielder>>
\*   data "double_play_full":                out: <<batter_name>>
\*   data "fielders_choice": out: <<runner_out, base_name>>,
\*                           reaches: <<batter_name>>
\*   scores: the score items
_update_fielding_out(self, feed_event, snapshot) ==
    LET parsed == feed_event.description
        batter_ == batter(self)
        g == self.game_update
        p == prefix(self)
        batter_name ==
            IF parsed.data = "fielders_choice"
            THEN parsed.reaches[1] ELSE parsed.out[1]
        parsed_scores ==
            IF parsed.data = "double_play_full" THEN <<>> ELSE parsed.scores
    IN  IF ~self.expects_pitch THEN Raise(self)
        ELSE IF batter_ = NoPlayer THEN Raise(self)
        ELSE
        \* the branch of the if/elif/else, up to `assert batter_name == ...`
        Bind(IF parsed.data \in {"ground_out_full", "flyout_full"}
             THEN IF \E i \in 1..Len(fielding_team(self).lineup) :
                        fielding_team(self).lineup[i].name = parsed.out[2]
                  THEN self ELSE Raise(self)
             ELSE IF parsed.data = "double_play_full"
             THEN Bind([self EXCEPT !.game_update.halfInningOuts = @ + 1],
                  LAMBDA counted :
                    IF ~(counted.game_update.halfInningOuts < g[p \o "Outs"])
                    THEN Raise(counted)
                    ELSE Bind(_update_scores(counted, parsed.scores),
                         LAMBDA scored :
                            IF ~scored.ok THEN scored
                            ELSE IF scored.game_update.halfInningOuts + 1 >=
                                        scored.game_update[p \o "Outs"]
                                 THEN scored
                            ELSE IF ~snapshot.present THEN Raise(scored)
                            ELSE Bind(Range(scored.game_update.baseRunners) \
                                        Range(snapshot.baseRunners),
                                 LAMBDA set_diff :
                                    IF Cardinality(set_diff) # 1
                                    THEN Raise(scored)
                                    ELSE _remove_baserunner_by_index(scored,
                                            Index(scored.game_update.baseRunners,
                                                  CHOOSE id \in set_diff :
                                                        TRUE)))))
             ELSE IF parsed.data = "fielders_choice"
             THEN Bind(Index(g.baseRunnerNames, parsed.out[1]),
                  LAMBDA runner_i :
                    IF runner_i = 0 THEN Raise(self)
                    ELSE Bind(_remove_baserunner_by_index(self, runner_i),
                         LAMBDA removed :
                            IF ~removed.ok THEN removed
                            ELSE _player_to_base(removed, batter_, 0)))
             ELSE Raise(self),
             LAMBDA branch :
        IF ~branch.ok THEN branch
        ELSE IF batter_name # batter_.name THEN Raise(branch)
        ELSE Bind(_update_scores(branch, parsed_scores), LAMBDA scored :
            IF ~scored.ok THEN scored
            ELSE _maybe_advance_baserunners(
                    _update_out(
                        [scored EXCEPT !.game_update.lastUpdate =
                                            feed_event.description],
                        snapshot, TRUE),
                    snapshot)))

update_flyout(self, feed_event, snapshot) ==
    _update_fielding_out(self, feed_event, snapshot)

update_ground_out(self, feed_event, snapshot) ==
    _update_fielding_out(self, feed_event, snapshot)

\* update_base_steal with the caught stealing counted as the batter's out
\* (for_batter=True)
update_base_steal_ends_atbat(self, feed_event, snapshot) ==
    LET parsed == feed_event.description
        stealer_name == parsed.children[1]
        base_name == parsed.children[2]
        g == self.game_update
        base_stolen == BASE_NUM_FOR_NAME[base_name]
        blaserunning ==
            parsed.extras # <<>> /\ parsed.extras[1].data = "blaserunning"
        parsed_extras ==
            IF blaserunning THEN Tail(parsed.extras) ELSE parsed.extras
        scores == base_stolen + 1 = g[prefix(self) \o "Bases"]
        runs_scored == (IF blaserunning THEN 1 ELSE 0)
                        + (IF scores THEN FifthsPerRun ELSE 0)
        expects_extras == blaserunning \/ scores
    IN  IF ~self.expects_pitch THEN Raise(self)
        ELSE IF parsed.data \notin {"stolen_base", "caught_stealing"}
             THEN Raise(self)
        ELSE IF base_name \notin DOMAIN BASE_NUM_FOR_NAME THEN Raise(self)
        ELSE
        Bind(Index(g.basesOccupied, base_stolen - 1), LAMBDA stealer_idx :
        IF stealer_idx = 0 THEN Raise(self)
        ELSE IF stealer_idx > Len(g.baseRunnerNames) THEN Raise(self)
        ELSE IF g.baseRunnerNames[stealer_idx] # stealer_name THEN Raise(self)
        ELSE
        Bind(IF parsed.data = "stolen_base"
             THEN Bind([self EXCEPT
                            !.game_update.basesOccupied[stealer_idx] = @ + 1],
                  LAMBDA moved :
                    IF blaserunning
                            /\ stealer_name # parsed.extras[1].children[1]
                    THEN Raise(moved)
                    ELSE Bind(IF blaserunning
                              THEN _score_runs(moved, 1) ELSE moved,
                         LAMBDA blaserun :
                         Bind(IF scores
                              THEN _score_player(blaserun, stealer_name)
                              ELSE blaserun,
                         LAMBDA scored :
                            IF ~scored.ok THEN scored
                            ELSE IF ~expects_extras /\ Len(parsed_extras) # 0
                                 THEN Raise(scored)
                            ELSE _record_runs(
                                    IF expects_extras
                                    THEN _apply_scoring_extras(scored,
                                                               parsed_extras)
                                    ELSE scored,
                                    runs_scored))))
             ELSE _record_runs(
                    _update_out(
                        _remove_baserunner_by_index(self, stealer_idx),
                        snapshot, TRUE),
                    0),
             LAMBDA s :
                IF ~s.ok THEN s
                ELSE [s EXCEPT
                        !.game_update.lastUpdate = feed_event.description]))

\* tree of Parsers.steal: data "stolen_base" | "caught_stealing", children
\* <<stealer_name, base_name>>, extras: an optional leading
\* [data "blaserunning", children <<name>>], then use_free_refill extras
update_base_steal(self, feed_event, snapshot) ==
    LET parsed == feed_event.description
        stealer_name == parsed.children[1]
        base_name == parsed.children[2]
        g == self.game_update
        base_stolen == BASE_NUM_FOR_NAME[base_name]
        blaserunning ==
            parsed.extras # <<>> /\ parsed.extras[1].data = "blaserunning"
        parsed_extras ==
            IF blaserunning THEN Tail(parsed.extras) ELSE parsed.extras
        scores == base_stolen + 1 = g[prefix(self) \o "Bases"]
        runs_scored == (IF blaserunning THEN 1 ELSE 0)
                        + (IF scores THEN FifthsPerRun ELSE 0)
        expects_extras == blaserunning \/ scores
    IN  IF ~self.expects_pitch THEN Raise(self)
        ELSE IF parsed.data \notin {"stolen_base", "caught_stealing"}
             THEN Raise(self)
        ELSE IF base_name \notin DOMAIN BASE_NUM_FOR_NAME THEN Raise(self)
        ELSE
        Bind(Index(g.basesOccupied, base_stolen - 1), LAMBDA stealer_idx :
        IF stealer_idx = 0 THEN Raise(self)
        ELSE IF stealer_idx > Len(g.baseRunnerNames) THEN Raise(self)
        ELSE IF g.baseRunnerNames[stealer_idx] # stealer_name THEN Raise(self)
        ELSE
        Bind(IF parsed.data = "stolen_base"
             THEN Bind([self EXCEPT
                            !.game_update.basesOccupied[stealer_idx] = @ + 1],
                  LAMBDA moved :
                    IF blaserunning
                            /\ stealer_name # parsed.extras[1].children[1]
                    THEN Raise(moved)
                    ELSE Bind(IF blaserunning
                              THEN _score_runs(moved, 1) ELSE moved,
                         LAMBDA blaserun :
                         Bind(IF scores
                              THEN _score_player(blaserun, stealer_name)
                              ELSE blaserun,
                         LAMBDA scored :
                            IF ~scored.ok THEN scored
                            ELSE IF ~expects_extras /\ Len(parsed_extras) # 0
                                 THEN Raise(scored)
                            ELSE _record_runs(
                                    IF expects_extras
                                    THEN _apply_scoring_extras(scored,
                                                               parsed_extras)
                                    ELSE scored,
                                    runs_scored))))
             ELSE _record_runs(
                    _update_out(
                        _remove_baserunner_by_index(self, stealer_idx),
                        snapshot, FALSE),
                    0),
             LAMBDA s :
                IF ~s.ok THEN s
                ELSE [s EXCEPT
                        !.game_update.lastUpdate = feed_event.description]))

\* tree of Parsers.mild_pitch: mild_pitch: <<pitcher_name>>, pitch: data
\* "ball" with children <<balls, strikes>> or data "walk" with children
\* <<walker>>, rest: the score items
update_mild_pitch(self, feed_event, snapshot) ==
    LET parsed == feed_event.description
        parsed_pitch == parsed.pitch
        batter_ == batter(self)
        ball == [self EXCEPT !.game_update.atBatBalls = @ + 1]
    IN  IF ~self.expects_pitch THEN Raise(self)
        ELSE IF parsed.mild_pitch[1] # fielding_team(self).pitcher.name
             THEN Raise(self)
        ELSE Bind(_update_scores(
                    IF parsed_pitch.data = "ball"
                    THEN IF /\ ball.game_update.atBatBalls =
                                    parsed_pitch.children[1]
                            /\ ball.game_update.atBatStrikes =
                                    parsed_pitch.children[2]
                         THEN ball ELSE Raise(ball)
                    ELSE IF parsed_pitch.data # "walk" THEN Raise(self)
                    ELSE IF batter_ = NoPlayer THEN Raise(self)
                    ELSE IF parsed_pitch.children[1] # batter_.name
                         THEN Raise(self)
                    ELSE _update_walk_generic(self, batter_),
                    parsed.rest),
             LAMBDA scored :
                IF ~scored.ok THEN scored
                ELSE [scored EXCEPT
                        !.game_update.lastUpdate = feed_event.description])

\* tree of Parsers.blooddrain: data "siphon", target: <<sipper, sipper2,
\* sippee, category>>, action: data and children <<sipper3>>
update_blooddrain(self, feed_event, snapshot) ==
    LET parsed == feed_event.description
        struck == [self EXCEPT !.game_update.atBatStrikes = @ + 1]
    IN  IF ~self.expects_pitch THEN Raise(self)
        ELSE IF parsed.data # "siphon" THEN Raise(self)
        ELSE IF parsed.target[1] # parsed.target[2] THEN Raise(self)
        ELSE IF parsed.action.data # "blooddrain_strike" THEN Raise(self)
        ELSE IF parsed.target[1] # parsed.action.children[1] THEN Raise(self)
        ELSE IF ~(struck.game_update.atBatStrikes <
                    struck.game_update[prefix(self) \o "Strikes"])
             THEN Raise(struck)
        ELSE [struck EXCEPT !.game_update.lastUpdate = feed_event.description]

update_inning_end(self, feed_event, snapshot) ==
    LET description == OutingText(self.game_update.inning + 1)
    IN  IF ~self.expects_inning_end THEN Raise(self)
        ELSE IF feed_event.description # description THEN Raise(self)
        ELSE [self EXCEPT !.game_update.lastUpdate = description,
                          !.game_update.phase = 2,
                          !.expects_inning_end = FALSE,
                          !.expects_half_inning_start = TRUE]

update_game_score(self, feed_event, snapshot) ==
    LET g == self.game_update
        description ==
            IF g.homeScore > g.awayScore
            THEN ScoreText(self.home.nickname, g.homeScore,
                           self.away.nickname, g.awayScore)
            ELSE ScoreText(self.away.nickname, g.awayScore,
                           self.home.nickname, g.homeScore)
    IN  IF ~self.expects_game_end THEN Raise(self)
        ELSE IF description # feed_event.description THEN Raise(self)
        ELSE [self EXCEPT !.game_update.lastUpdate = description,
                          !.game_update.finalized = TRUE,
                          !.game_update.gameComplete = TRUE]

\* update_no_state_change_pitch without `assert self.expects_pitch`
update_no_state_change_pitch_unasserted(self, feed_event, snapshot) ==
    [self EXCEPT !.game_update.lastUpdate = feed_event.description]

update_no_state_change_pitch(self, feed_event, snapshot) ==
    IF ~self.expects_pitch THEN Raise(self)
    ELSE [self EXCEPT !.game_update.lastUpdate = feed_event.description]

update_no_state_change_batter_up(self, feed_event, snapshot) ==
    IF ~self.expects_batter_up THEN Raise(self)
    ELSE [self EXCEPT !.game_update.lastUpdate = feed_event.description]

\* tree of Parsers.coffee_bean: bean: <<player_name, flavor>>,
\* mod: <<player_name, mod_name>>
update_coffee_bean(self, feed_event, snapshot) ==
    LET parsed == feed_event.description
    IN  IF ~self.expects_pitch THEN Raise(self)
        ELSE IF parsed.bean[1] # parsed.mod[1] THEN Raise(self)
        ELSE self

\* ------------------------------------------------------------ dispatch

update_type ==
    {0, 1, 2, 4, 5, 6, 7, 8, 9, 10, 11, 12, 13, 14, 15, 25, 27, 28, 39, 52,
     73, 92}

update_func(self, feed_event, snapshot) ==
    CASE feed_event.type = 0 -> update_lets_go(self, feed_event, snapshot)
      [] feed_event.type = 1 -> update_play_ball(self, feed_event, snapshot)
      [] feed_event.type = 2 ->
            update_half_inning_start(self, feed_event, snapshot)
      [] feed_event.type = 4 -> update_base_steal(self, feed_event, snapshot)
      [] feed_event.type = 5 -> update_walk(self, feed_event, snapshot)
      [] feed_event.type = 6 -> update_strikeout(self, feed_event, snapshot)
      [] feed_event.type = 7 -> update_flyout(self, feed_event, snapshot)
      [] feed_event.type = 8 -> update_ground_out(self, feed_event, snapshot)
      [] feed_event.type = 9 -> update_home_run(self, feed_event, snapshot)
      [] feed_event.type = 10 -> update_hit(self, feed_event, snapshot)
      [] feed_event.type = 11 -> update_game_score(self, feed_event, snapshot)
      [] feed_event.type = 12 -> update_batter_up(self, feed_event, snapshot)
      [] feed_event.type = 13 -> update_strike(self, feed_event, snapshot)
      [] feed_event.type = 14 -> update_ball(self, feed_event, snapshot)
      [] feed_event.type = 15 -> update_foul_ball(self, feed_event, snapshot)
      [] feed_event.type = 25 ->
            update_strike_zapped(self, feed_event, snapshot)
      [] feed_event.type = 27 -> update_mild_pitch(self, feed_event, snapshot)
      [] feed_event.type = 28 -> update_inning_end(self, feed_event, snapshot)
      [] feed_event.type = 39 -> update_coffee_bean(self, feed_event, snapshot)
      [] feed_event.type = 52 -> update_blooddrain(self, feed_event, snapshot)
      [] feed_event.type = 73 ->
            update_no_state_change_pitch(self, feed_event, snapshot)
      [] feed_event.type = 92 ->
            update_no_state_change_batter_up(self, feed_event, snapshot)

\* GameState.update: the object afterwards, with `returned` the one document
\* update() returns.
update(self, feed_event, snapshot) ==
    IF feed_event.type \notin update_type
    THEN Raise([self EXCEPT !.game_update.scoreUpdate = 0])
    ELSE Bind(update_func([self EXCEPT !.game_update.scoreUpdate = 0],
                          feed_event, snapshot),
         LAMBDA handled :
            IF ~handled.ok THEN handled
            ELSE IF handled.returned # <<>> THEN handled
            ELSE [handled EXCEPT
                    !.game_update.playCount = @ + 1,
                    !.returned =
                        <<[handled.game_update EXCEPT !.playCount = @ + 1]>>])

\* ------------------------------------------------------------ the feed

FeedEvent(type, description) ==
    [type |-> type, description |-> description, playerTags |-> <<>>]

SeqsUpTo(S, n) == UNION {[1..k -> S] : k \in 0..n}

BaseNums == {BASE_NUM_FOR_NAME[n] : n \in DOMAIN BASE_NUM_FOR_NAME}

\* basesOccupied of a snapshot: the lead runner first, no base shared
DescSeqs ==
    [n \in 0..4 |->
        {b \in [1..n -> BaseNums] : \A i \in 1..(n - 1) : b[i] > b[i + 1]}]

Snapshot(baseRunners, basesOccupied, awayTeamBatterCount, homeTeamBatterCount) ==
    [present |-> TRUE, baseRunners |-> baseRunners,
     basesOccupied |-> basesOccupied,
     awayTeamBatterCount |-> awayTeamBatterCount,
     homeTeamBatterCount |-> homeTeamBatterCount]

\* Snapshot documents: the batter count of the batting side lags the running
\* one by a delta of `deltas`, the runners are one of `runner_lists`, each on
\* a base of their own.
Snapshots(self, deltas, runner_lists) ==
    LET g == self.game_update
    IN  UNION {
            { Snapshot(r, b,
                IF g.topOfInning THEN g.awayTeamBatterCount - d
                                 ELSE g.awayTeamBatterCount,
                IF g.topOfInning THEN g.homeTeamBatterCount
                                 ELSE g.homeTeamBatterCount - d)
              : b \in DescSeqs[Len(r)], d \in deltas }
            : r \in {x \in runner_lists : Len(x) <= 4} }

\* the running runners, with the batter behind them, and without one of them
Runners(self) == self.game_update.baseRunners
RunnersAndBatter(self) ==
    IF batter(self) = NoPlayer THEN Runners(self)
    ELSE Append(Runners(self), batter(self).id)
Without(list) == {Pop(list, i) : i \in 1..Len(list)}

\* for the handlers that do not read the snapshot: none, or the running one
SomeSnapshots(self) ==
    {NoSnapshot,
     Snapshot(Runners(self), self.game_update.basesOccupied,
              self.game_update.awayTeamBatterCount,
              self.game_update.homeTeamBatterCount)}

\* a name no player has
Stranger == "Zed"

BatterName(self) ==
    IF batter(self) = NoPlayer THEN Stranger ELSE batter(self).name
BatterNames(self) == {BatterName(self), Stranger}

RunnerNames(self) == Range(self.game_update.baseRunnerNames)

PitcherName(self) == fielding_team(self).pitcher.name

NameOfBase(base_num) ==
    CHOOSE n \in DOMAIN BASE_NUM_FOR_NAME : BASE_NUM_FOR_NAME[n] = base_num

UseFreeRefill(name) ==
    [data |-> "use_free_refill", children |-> <<name, name>>]

\* up to MaxExtras free refills by one of `names`
Extras(names) ==
    {[i \in 1..k |-> UseFreeRefill(n)] : n \in names, k \in 0..MaxExtras}

\* up to MaxScores score items, each a runner of `names` who may use a free
\* refill, as may the pitcher
Scores(self, data, names) ==
    SeqsUpTo(UNION {{[data |-> data, name |-> n, extras |-> e] :
                        e \in Extras({n, PitcherName(self)})} : n \in names},
             MaxScores)

\* A plain event: what every game consists of.
Plain(feed_event, snapshot) ==
    \/ feed_event.type \in {0, 1, 2, 11, 28}
    \/ feed_event.type = 12 /\ feed_event.description.inhabiting = <<>>
    \/ /\ feed_event.type = 7
       /\ feed_event.description.data = "flyout_full"
       /\ feed_event.description.scores = <<>>
       /\ snapshot = NoSnapshot
    \/ /\ feed_event.type = 9
       /\ feed_event.description.hr_type.data = "solo_hr"
       /\ feed_event.description.rest = <<>>

\* An event of a stealing game: the away batters walk to an empty first
\* base and are caught stealing, with no snapshot or with one whose
\* TeamBatterCount is 1 or 2 behind; the home batters fly out.
Stealing(feed_event, snapshot) ==
    \/ feed_event.type \in {0, 1, 2, 28}
    \/ feed_event.type = 12 /\ feed_event.description.inhabiting = <<>>
    \/ /\ feed_event.type = 7
       /\ feed_event.description.data = "flyout_full"
       /\ feed_event.description.scores = <<>>
       /\ snapshot = NoSnapshot
       /\ ~game_update.topOfInning
    \/ /\ feed_event.type = 5
       /\ feed_event.description.rest = <<>>
       /\ snapshot = NoSnapshot
       /\ game_update.topOfInning
       /\ game_update.baserunnerCount = 0
    \/ /\ feed_event.type = 4
       /\ feed_event.description.data = "caught_stealing"
       /\ snapshot \in {NoSnapshot}
                        \cup Snapshots(Self, 1..2, {Runners(Self)})

\* The bound on the feed: see MaxPlayCount, MaxStealingCount and MaxRuns.
Fed(feed_event, snapshot) ==
    \/ game_update.playCount < MaxPlayCount
    \/ /\ stealing
       /\ Stealing(feed_event, snapshot)
       /\ game_update.playCount < MaxStealingCount
    \/ /\ plain
       /\ Plain(feed_event, snapshot)
       /\ feed_event.type = 9 =>
            game_update.awayScore + game_update.homeScore
                < MaxRuns * FifthsPerRun

\* Out of an at-bat every pitch event is refused before it is parsed: one
\* event of the type is fed, without a snapshot.
Pitches(inputs) ==
    IF expects_pitch THEN inputs
    ELSE {<<(CHOOSE input \in inputs : TRUE)[1], NoSnapshot>>}

\* ------------------------------------------------------------ actions

Commit(r, feed_event) ==
    /\ expects_lets_go' = r.expects_lets_go
    /\ expects_play_ball' = r.expects_play_ball
    /\ expects_half_inning_start' = r.expects_half_inning_start
    /\ expects_batter_up' = r.expects_batter_up
    /\ expects_pitch' = r.expects_pitch
    /\ expects_inning_end' = r.expects_inning_end
    /\ expects_game_end' = r.expects_game_end
    /\ expects_reverberate' = r.expects_reverberate
    /\ away' = r.away
    /\ home' = r.home
    /\ haunter' = r.haunter
    /\ game_update' = r.game_update
    /\ refills' = r.refills
    /\ emitted' = r.returned
    /\ event' = feed_event.type
    /\ aborted' = FALSE
    /\ game_scores' = IF feed_event.type = 11 THEN game_scores + 1
                      ELSE game_scores
    /\ interrupted' =
            IF /\ feed_event.type = 4
               /\ feed_event.description.data = "caught_stealing"
               /\ r.game_update.phase \in {3, 7}
            THEN [interrupted EXCEPT ![prefix(Self)] =
                    LineupAt(batting_team(Self),
                             batting_team(Self).batter_index).id]
            ELSE IF feed_event.type = 12
                 THEN [interrupted EXCEPT ![prefix(Self)] = None]
                 ELSE interrupted
    /\ called' =
            IF feed_event.type = 12
            THEN [called EXCEPT ![prefix(Self)] = TRUE]
            ELSE IF \/ feed_event.type \in {6, 7, 8}
                    \/ /\ feed_event.type = 4
                       /\ feed_event.description.data = "caught_stealing"
                 THEN [called EXCEPT ![prefix(Self)] = FALSE]
                 ELSE called

\* The exception leaves update(): nothing is returned, the game is abandoned
\* and the object is not used again.
Reject ==
    /\ aborted' = TRUE
    /\ UNCHANGED <<expects_lets_go, expects_play_ball,
                   expects_half_inning_start, expects_batter_up,
                   expects_pitch, expects_inning_end, expects_game_end,
                   expects_reverberate, away, home, haunter, game_update,
                   refills, emitted, event, game_scores, interrupted,
                   called>>

\* One call self.update(feed_event, snapshot).
Dispatch(feed_event, snapshot) ==
    /\ ~aborted
    /\ Fed(feed_event, snapshot)
    /\ plain' = (plain /\ Plain(feed_event, snapshot))
    /\ stealing' = (stealing /\ Stealing(feed_event, snapshot))
    /\ Bind(update(Self, feed_event, snapshot), LAMBDA r :
            IF r.ok THEN Commit(r, feed_event) ELSE Reject)

LetsGo ==
    \E d \in {Text("Let's Go!"), Text("Play ball!")},
       snapshot \in SomeSnapshots(Self) :
        Dispatch(FeedEvent(0, d), snapshot)

PlayBall ==
    \E d \in {Text("Let's Go!"), Text("Play ball!")},
       snapshot \in SomeSnapshots(Self) :
        Dispatch(FeedEvent(1, d), snapshot)

HalfInningStart ==
    /\ game_update.inning < MaxInning
    /\ \E half \in {"Top", "Bottom"},
          inning \in {game_update.inning + 1, game_update.inning + 2},
          team_name \in {game_update.awayTeamName, game_update.homeTeamName},
          snapshot \in SomeSnapshots(Self) :
            Dispatch(FeedEvent(2, HalfInningText(half, inning, team_name)),
                     snapshot)

BatterUpEvent(inhabiting, name, team_name, wielding) ==
    [type |-> 12,
     description |-> [inhabiting |-> inhabiting,
                      batter_up |-> <<name, team_name>>,
                      wielding |-> wielding],
     playerTags |-> IF inhabiting = <<>> THEN <<>> ELSE <<Ghost.id>>]

\* a batter of the lineup comes up, or the ghost inhabits one of them
BatterUp ==
    \E feed_event \in
            {BatterUpEvent(<<>>, batting_team(Self).lineup[i].name, t, w) :
                i \in 1..Len(batting_team(Self).lineup),
                t \in {away.nickname, home.nickname},
                w \in {<<>>, <<"Bat">>}}
            \cup
            {BatterUpEvent(<< <<Ghost.name, batting_team(Self).lineup[i].name>> >>,
                           n, batting_team(Self).nickname, <<>>) :
                i \in 1..Len(batting_team(Self).lineup),
                n \in {Ghost.name, Stranger}},
       snapshot \in SomeSnapshots(Self) :
        Dispatch(feed_event, snapshot)

\* the description with the count after the pitch, and with the count before
CountEvents(type, text, balls, strikes) ==
    {FeedEvent(type, CountText(text, game_update.atBatBalls + b,
                               game_update.atBatStrikes + s)) :
        b \in balls, s \in strikes}

Ball ==
    \E input \in Pitches(CountEvents(14, "Ball", {0, 1}, {0})
                            \X SomeSnapshots(Self)) :
        Dispatch(input[1], input[2])

Strike ==
    \E input \in Pitches(CountEvents(13, "Strike, looking", {0}, {0, 1})
                            \X SomeSnapshots(Self)) :
        Dispatch(input[1], input[2])

FoulBall ==
    \E input \in Pitches(CountEvents(15, "Foul Ball", {0}, {0, 1})
                            \X SomeSnapshots(Self)) :
        Dispatch(input[1], input[2])

StrikeZapped ==
    \E input \in Pitches(
            {FeedEvent(25, Text("The Electricity zaps a strike away!")),
             FeedEvent(25, Text(""))} \X SomeSnapshots(Self)) :
        Dispatch(input[1], input[2])

Walk ==
    \E input \in Pitches(
            ({FeedEvent(5, [walk |-> <<BatterName(Self)>>, rest |-> rest]) :
                rest \in Scores(Self, "score",
                                RunnerNames(Self) \cup {BatterName(Self)})}
             \cup {FeedEvent(5, [walk |-> <<Stranger>>, rest |-> <<>>])})
            \X SomeSnapshots(Self)) :
        Dispatch(input[1], input[2])

Strikeout ==
    \E input \in Pitches(
            ({FeedEvent(6, [data |-> "strikeout",
                            children |-> <<n, "swinging">>]) :
                n \in BatterNames(Self)}
             \cup
             {FeedEvent(6, [data |-> "charm_strikeout",
                            children |-> <<c, BatterName(Self),
                                           BatterName(Self), k>>]) :
                c \in {away.pitcher.name, home.pitcher.name},
                k \in {game_update.awayStrikes, game_update.homeStrikes}})
            \X ({NoSnapshot}
                    \cup Snapshots(Self, 0..2, {Runners(Self)}))) :
        Dispatch(input[1], input[2])

FieldingOut(type, data, batter_name, fielder, scores) ==
    FeedEvent(type, [data |-> data, out |-> <<batter_name, fielder>>,
                     scores |-> scores])

\* the snapshots of an out: the runners, or all but one or two of them
OutSnapshots ==
    {NoSnapshot}
        \cup Snapshots(Self, 0..1,
                       {Runners(Self)} \cup Without(Runners(Self))
                        \cup UNION {Without(list) :
                                        list \in Without(Runners(Self))})

\* a fly out, or a fielder's choice that puts a runner out
Flyout ==
    \E input \in Pitches(
            ({FieldingOut(7, "flyout_full", BatterName(Self),
                          fielding_team(Self).lineup[1].name, sc) :
                sc \in Scores(Self, "sacrifice", RunnerNames(Self))}
             \cup {FieldingOut(7, "flyout_full", Stranger,
                               fielding_team(Self).lineup[1].name, <<>>),
                   FieldingOut(7, "flyout_full", BatterName(Self),
                               Stranger, <<>>)})
            \X {NoSnapshot}
            \cup
            ({FieldingOut(7, "flyout_full", BatterName(Self),
                          fielding_team(Self).lineup[1].name, <<>>)}
             \cup {FeedEvent(7, [data |-> "fielders_choice",
                                 out |-> <<r, "second">>,
                                 scores |-> <<>>,
                                 reaches |-> <<BatterName(Self)>>]) :
                    r \in RunnerNames(Self)})
            \X OutSnapshots) :
        Dispatch(input[1], input[2])

\* a ground out, or a double play
GroundOut ==
    \E input \in Pitches(
            ({FieldingOut(8, "ground_out_full", BatterName(Self),
                          fielding_team(Self).lineup[1].name, sc) :
                sc \in Scores(Self, "sacrifice", RunnerNames(Self))}
             \cup {FeedEvent(8, [data |-> "tag_out", out |-> <<>>,
                                 scores |-> <<>>])})
            \X {NoSnapshot}
            \cup
            ({FeedEvent(8, [data |-> "double_play_full",
                            out |-> <<BatterName(Self)>>, scores |-> sc]) :
                sc \in Scores(Self, "sacrifice", RunnerNames(Self))}
             \cup {FeedEvent(8, [data |-> "double_play_full",
                                 out |-> <<Stranger>>, scores |-> <<>>])})
            \X OutSnapshots) :
        Dispatch(input[1], input[2])

HomeRunEvent(name, hr_type, rest) ==
    FeedEvent(9, [hr |-> <<name>>, hr_type |-> hr_type, rest |-> rest])

HomeRun ==
    \E input \in Pitches(
            ({HomeRunEvent(BatterName(Self), hr_type, rest) :
                hr_type \in {[data |-> "solo_hr"]}
                            \cup {[data |-> "multi_hr", count |-> k] :
                                    k \in 2..MaxHomeRun},
                rest \in Extras({BatterName(Self), PitcherName(Self)}
                                    \cup RunnerNames(Self))}
             \cup {HomeRunEvent(Stranger, [data |-> "solo_hr"], <<>>)})
            \X SomeSnapshots(Self)) :
        Dispatch(input[1], input[2])

HitEvent(name, base_name, heating_up, rest) ==
    FeedEvent(10, [hit |-> <<name, base_name>>, heating_up |-> heating_up,
                   rest |-> rest])

Hit ==
    \E input \in Pitches(
            ({HitEvent(BatterName(Self), base_name, <<>>, rest) :
                base_name \in DOMAIN BASE_NUM_FOR_HIT,
                rest \in Scores(Self, "score", RunnerNames(Self))}
             \cup {HitEvent(n, "Single", <<h>>, <<>>) :
                    n \in BatterNames(Self), h \in BatterNames(Self)})
            \X {NoSnapshot}
            \cup
            {HitEvent(BatterName(Self), base_name, <<>>, <<>>) :
                base_name \in DOMAIN BASE_NUM_FOR_HIT}
            \X Snapshots(Self, {0},
                         {Runners(Self), RunnersAndBatter(Self)})) :
        Dispatch(input[1], input[2])

StealEvent(data, name, base_name, extras) ==
    FeedEvent(4, [data |-> data, children |-> <<name, base_name>>,
                  extras |-> extras])

Blaserunning(name) == [data |-> "blaserunning", children |-> <<name>>]

\* a runner steals the next base, with or without blaserunning, or is caught
BaseSteal ==
    \E input \in Pitches(
            (((UNION {
                {StealEvent("stolen_base", game_update.baseRunnerNames[i],
                            NameOfBase(game_update.basesOccupied[i] + 1),
                            b \o e) :
                    b \in {<<>>,
                           <<Blaserunning(game_update.baseRunnerNames[i])>>},
                    e \in Extras({game_update.baseRunnerNames[i],
                                  PitcherName(Self)})}
                : i \in {j \in 1..Len(game_update.basesOccupied) :
                            game_update.basesOccupied[j] + 1 \in BaseNums} })
              \cup {StealEvent("stolen_base", Stranger, "second", <<>>),
                    StealEvent("stolen_base", Stranger, "home", <<>>)})
             \X {NoSnapshot})
            \cup
            ({StealEvent("caught_stealing", game_update.baseRunnerNames[i],
                         NameOfBase(game_update.basesOccupied[i] + 1), <<>>) :
                i \in {j \in 1..Len(game_update.basesOccupied) :
                            game_update.basesOccupied[j] + 1 \in BaseNums}}
             \X ({NoSnapshot}
                    \cup Snapshots(Self, 0..2, {Runners(Self)})))) :
        Dispatch(input[1], input[2])

MildPitchEvent(pitcher_name, pitch, rest) ==
    FeedEvent(27, [mild_pitch |-> <<pitcher_name>>, pitch |-> pitch,
                   rest |-> rest])

MildPitch ==
    \E input \in Pitches(
            ({MildPitchEvent(p, [data |-> "ball",
                                 children |-> <<game_update.atBatBalls + b,
                                                game_update.atBatStrikes>>],
                             <<>>) :
                p \in {away.pitcher.name, home.pitcher.name}, b \in {0, 1}}
             \cup
             {MildPitchEvent(PitcherName(Self),
                             [data |-> "walk", children |-> <<n>>], <<>>) :
                n \in BatterNames(Self)}
             \cup
             {MildPitchEvent(PitcherName(Self),
                             [data |-> "ball",
                              children |-> <<game_update.atBatBalls + 1,
                                             game_update.atBatStrikes>>],
                             rest) :
                rest \in Scores(Self, "score", RunnerNames(Self))})
            \X SomeSnapshots(Self)) :
        Dispatch(input[1], input[2])

Blooddrain ==
    \E input \in Pitches(
            {FeedEvent(52, [data |-> "siphon",
                            target |-> <<"Cy", "Cy", "Bo", "hitting">>,
                            action |-> [data |-> action,
                                        children |-> <<sipper3>>]]) :
                sipper3 \in {"Cy", "Bo"},
                action \in {"blooddrain_strike", "blooddrain_ball"}}
            \X SomeSnapshots(Self)) :
        Dispatch(input[1], input[2])

CoffeeBean ==
    \E input \in Pitches(
            {FeedEvent(39, [bean |-> <<"Ann", "Flat White">>,
                            mod |-> <<name2, "Wired">>]) :
                name2 \in {"Ann", "Cy"}}
            \X SomeSnapshots(Self)) :
        Dispatch(input[1], input[2])

InningEnd ==
    \E inning \in {game_update.inning, game_update.inning + 1},
       snapshot \in SomeSnapshots(Self) :
        Dispatch(FeedEvent(28, OutingText(inning)), snapshot)

GameScore ==
    /\ game_scores < MaxGameScores
    /\ \E home_first \in BOOLEAN, snapshot \in SomeSnapshots(Self) :
        Dispatch(FeedEvent(11,
                    IF home_first
                    THEN ScoreText(home.nickname, game_update.homeScore,
                                   away.nickname, game_update.awayScore)
                    ELSE ScoreText(away.nickname, game_update.awayScore,
                                   home.nickname, game_update.homeScore)),
                 snapshot)

NoStateChangePitch ==
    \E input \in Pitches({FeedEvent(73, Text("peanut flavor text"))}
                            \X SomeSnapshots(Self)) :
        Dispatch(input[1], input[2])

NoStateChangeBatterUp ==
    \E snapshot \in SomeSnapshots(Self) :
        Dispatch(FeedEvent(92, Text("superyummy flavor text")), snapshot)

\* an event whose type update_type does not hold: a KeyError
UnknownType ==
    \E type \in {3, 99}, snapshot \in SomeSnapshots(Self) :
        Dispatch(FeedEvent(type, Text("")), snapshot)

Init ==
    \E setup \in Setups :
        LET self == GameState(setup)
        IN  /\ expects_lets_go = self.expects_lets_go
            /\ expects_play_ball = self.expects_play_ball
            /\ expects_half_inning_start = self.expects_half_inning_start
            /\ expects_batter_up = self.expects_batter_up
            /\ expects_pitch = self.expects_pitch
            /\ expects_inning_end = self.expects_inning_end
            /\ expects_game_end = self.expects_game_end
            /\ expects_reverberate = self.expects_reverberate
            /\ away = self.away
            /\ home = self.home
            /\ haunter = self.haunter
            /\ game_update = self.game_update
            /\ refills = self.refills
            /\ emitted = <<>>
            /\ event = -1
            /\ aborted = FALSE
            /\ plain = TRUE
            /\ stealing = TRUE
            /\ interrupted = [away |-> None, home |-> None]
            /\ called = [away |-> FALSE, home |-> FALSE]
            /\ game_scores = 0

Next ==
    \/ LetsGo
    \/ PlayBall
    \/ HalfInningStart
    \/ BatterUp
    \/ Ball
    \/ Strike
    \/ FoulBall
    \/ StrikeZapped
    \/ Walk
    \/ Strikeout
    \/ Flyout
    \/ GroundOut
    \/ HomeRun
    \/ Hit
    \/ BaseSteal
    \/ MildPitch
    \/ Blooddrain
    \/ CoffeeBean
    \/ InningEnd
    \/ GameScore
    \/ NoStateChangePitch
    \/ NoStateChangeBatterUp
    \/ UnknownType

Spec == Init /\ [][Next]_vars

\* ------------------------------------------------------------ properties

\* A step of Next that update() accepted: Commit, and not Reject.
Accepted == ~aborted'

BattingOuts == game_update[prefix(Self) \o "Outs"]

\* The PlayerState objects the two TeamStates hold.
Players ==
    Range(away.lineup) \cup Range(home.lineup) \cup {away.pitcher, home.pitcher}

\* C1: after construction and after every accepted event the four baserunner
\* lists have the same length, and that length is baserunnerCount.
C1_ParallelArrays ==
    /\ Len(game_update.baseRunners) = game_update.baserunnerCount
    /\ Len(game_update.baseRunnerNames) = game_update.baserunnerCount
    /\ Len(game_update.baseRunnerMods) = game_update.baserunnerCount
    /\ Len(game_update.basesOccupied) = game_update.baserunnerCount

\* C1: a runner was taken off the bases (a home run with a runner on) after
\* runners had been put on.
C1_RunnerRemoved ==
    /\ ~aborted
    /\ event = 9
    /\ game_update.scoreUpdate = 2 * FifthsPerRun
    /\ game_update.baserunnerCount = 0

\* C2: after every accepted event the values of basesOccupied are pairwise
\* distinct.
C2_BasesDistinct ==
    \A i, j \in 1..Len(game_update.basesOccupied) :
        i # j => game_update.basesOccupied[i] # game_update.basesOccupied[j]

\* C3: after every accepted event 0 <= halfInningOuts < the outs of the
\* batting team, a free refill included.
C3_OutBound ==
    /\ 0 <= game_update.halfInningOuts
    /\ game_update.halfInningOuts < BattingOuts

\* C4: every accepted event raises the running playCount by exactly 1, an
\* accepted play_ball by 2.
C4_PlayCountStep ==
    [][Accepted =>
        game_update'.playCount =
            game_update.playCount + (IF event' = 1 THEN 2 ELSE 1)]_vars

\* C5: no accepted event lowers awayScore or homeScore.
C5_ScoresNeverDecrease ==
    [][/\ game_update'.awayScore >= game_update.awayScore
       /\ game_update'.homeScore >= game_update.homeScore]_vars

\* C5: both teams have scored.
C5_BothScored ==
    /\ ~aborted
    /\ game_update.awayScore > 0
    /\ game_update.homeScore > 0

\* C6: a player's COFFEE_RALLY is consumed by a free refill at most once: the
\* player who has used it no longer holds the mod, and a further
\* use_free_refill that can only mean that player is refused.
C6_RefillOnce ==
    \A q \in Players :
        /\ refills[q.id] <= 1
        /\ refills[q.id] = 1 =>
            /\ "COFFEE_RALLY" \notin q.mods
            /\ (\A o \in Range(batting_team(Self).lineup)
                            \cup {fielding_team(Self).pitcher} :
                    o.name = q.name => "COFFEE_RALLY" \notin o.mods)
                => ~_apply_scoring_extra(Self, UseFreeRefill(q.name)).ok

\* C6: a batter has used the free refill, is on base, and the event after it
\* was accepted.
C6_RefillUsed ==
    /\ ~aborted
    /\ \E q \in Range(batting_team(Self).lineup) :
        /\ refills[q.id] = 1
        /\ q.id \in Range(game_update.baseRunners)

\* C7: after construction and after every accepted event at least one and at
\* most two of the seven expectation flags are true.
C7_OneOrTwoFlags ==
    Cardinality({i \in 1..7 :
        <<expects_lets_go, expects_play_ball, expects_half_inning_start,
          expects_batter_up, expects_pitch, expects_inning_end,
          expects_game_end>>[i]}) \in {1, 2}

\* C7: the out that ends the game has been accepted.
C7_GameOver ==
    /\ ~aborted
    /\ expects_game_end
    /\ event = 7

\* The expectation flag an event of type `code` needs; no flag lets an event
\* outside the dispatch table through.
Required(code) ==
    CASE code = 0 -> expects_lets_go
      [] code = 1 -> expects_play_ball
      [] code = 2 -> expects_half_inning_start
      [] code \in {12, 92} -> expects_batter_up
      [] code = 28 -> expects_inning_end
      [] code = 11 -> expects_game_end
      [] code \in {4, 5, 6, 7, 8, 9, 10, 13, 14, 15, 25, 27, 39, 52, 73} ->
            expects_pitch
      [] OTHER -> FALSE

\* C8: an event is accepted only when the expectation flag of its type held
\* before it, an event outside the dispatch table never; a refused event
\* emits no document.
C8_Gating ==
    [][/\ Accepted => Required(event')
       /\ ~Accepted => emitted' = emitted]_vars

\* C8: an event was refused in the state that follows an accepted inning end,
\* where every pitch event and every batter-up is fed and only a half-inning
\* start is expected.
C8_RefusedAfterInningEnd ==
    /\ aborted
    /\ event = 28
    /\ expects_half_inning_start
    /\ ~expects_pitch
    /\ ~expects_batter_up

\* C9: whenever expects_pitch is false, atBatBalls and atBatStrikes are 0.
C9_CountZeroOutsideAtBat ==
    ~expects_pitch =>
        /\ game_update.atBatBalls = 0
        /\ game_update.atBatStrikes = 0

\* C9: a strikeout, which follows at least one strike, has ended the at-bat.
C9_StruckOut ==
    /\ ~aborted
    /\ event = 6
    /\ ~expects_pitch

Blank(side) ==
    /\ game_update[side \o "Batter"] = None
    /\ game_update[side \o "BatterName"] = ""
    /\ game_update[side \o "BatterMod"] = ""

\* C10: at most one of awayBatter and homeBatter is populated; during an
\* at-bat it is the one of the batting side and the three batter fields of
\* the fielding side are blank; outside an at-bat both sides are blank.
C10_BatterFields ==
    /\ game_update.awayBatter = None \/ game_update.homeBatter = None
    /\ expects_pitch =>
        /\ game_update[prefix(Self) \o "Batter"] # None
        /\ Blank(prefix_negate(Self))
    /\ ~expects_pitch => Blank("away") /\ Blank("home")

\* C10: a home batter is at bat in a bottom half, after away batters have
\* been.
C10_HomeAtBat ==
    /\ ~aborted
    /\ expects_pitch
    /\ ~game_update.topOfInning
    /\ game_update.homeBatter # None
    /\ game_update.awayTeamBatterCount >= 0

BattingStrikes == game_update[prefix(Self) \o "Strikes"]

\* C11: after every accepted event 0 <= atBatStrikes < the strikes of the
\* batting team: the strike that would complete the count is never accepted
\* as a plain strike event.
C11_StrikeBound ==
    /\ 0 <= game_update.atBatStrikes
    /\ game_update.atBatStrikes < BattingStrikes

SoloHomeRun == HomeRunEvent(BatterName(Self), [data |-> "solo_hr"], <<>>)

MultiHomeRun(count) ==
    HomeRunEvent(BatterName(Self), [data |-> "multi_hr", count |-> count], <<>>)

\* One call of update() with `feed_event`, with or without a snapshot.
FedWith(feed_event) ==
    \E snapshot \in SomeSnapshots(Self) : Dispatch(feed_event, snapshot)

OneOnSecond == expects_pitch /\ game_update.basesOccupied = <<1>>

\* The home run was accepted: the bases are empty, the batting team has
\* `runs` more runs, scoreUpdate announces them and the at-bat has ended.
HomeRunScored(runs) ==
    /\ Accepted
    /\ game_update'.baseRunners = <<>>
    /\ game_update'[prefix(Self) \o "Score"] =
            game_update[prefix(Self) \o "Score"] + runs * FifthsPerRun
    /\ game_update'.scoreUpdate = runs * FifthsPerRun
    /\ Blank("away")' /\ Blank("home")'
    /\ expects_batter_up' /\ ~expects_pitch'

\* C12 as stated: a solo home run without extras, with one runner on base, on
\* second, is accepted; afterwards the bases are empty, the batting team has
\* 2 more runs, scoreUpdate is "2 Runs scored!" and the at-bat has ended.
C12_SoloHomeRunWithRunner ==
    [][OneOnSecond /\ FedWith(SoloHomeRun) => HomeRunScored(2)]_vars

\* C12, amended: with one runner on base, on second, a solo home run is
\* refused; the 2-run home run without extras is accepted, and afterwards the
\* bases are empty, the batting team has 2 more runs, scoreUpdate is
\* "2 Runs scored!" and the at-bat has ended.
C12_TwoRunHomeRunWithRunner ==
    [][OneOnSecond =>
        /\ FedWith(SoloHomeRun) => ~Accepted
        /\ FedWith(MultiHomeRun(2)) => HomeRunScored(2)]_vars

\* C12: a 2-run home run has been accepted, which takes a runner on base.
C12_TwoRunHomeRunAccepted ==
    /\ ~aborted
    /\ event = 9
    /\ game_update.lastUpdate = [hr |-> <<"Bo">>,
                                 hr_type |-> [data |-> "multi_hr", count |-> 2],
                                 rest |-> <<>>]
    /\ game_update.scoreUpdate = 2 * FifthsPerRun
    /\ game_update.baseRunners = <<>>
    /\ game_update.awayScore = 2 * FifthsPerRun

\* The six pitcher fields of `document` are blank.
PitchersBlank(document) ==
    /\ document.awayPitcher = None /\ document.homePitcher = None
    /\ document.awayPitcherName = "" /\ document.homePitcherName = ""
    /\ document.awayPitcherMod = "" /\ document.homePitcherMod = ""

\* The six pitcher fields of `document` are as update_lets_go writes them.
PitchersShown(document) ==
    /\ document.awayPitcher = away.pitcher.id
    /\ document.awayPitcherName = away.pitcher.name
    /\ document.awayPitcherMod = show_pitcher_mod(away.pitcher)
    /\ document.homePitcher = home.pitcher.id
    /\ document.homePitcherName = home.pitcher.name
    /\ document.homePitcherMod = show_pitcher_mod(home.pitcher)

\* C13: the document emitted for an accepted play_ball has blank pitcher
\* fields, phase 2 and inning -1, while the running document keeps the
\* pitchers let's_go wrote; the document emitted for the half_inning_start
\* that follows shows the pitchers again.
C13_PlayBallDocument ==
    /\ [](event = 1 =>
            /\ PitchersBlank(emitted[1])
            /\ emitted[1].phase = 2 /\ emitted[1].inning = -1
            /\ PitchersShown(game_update))
    /\ [][event = 1 /\ Accepted /\ event' = 2 =>
            PitchersShown(emitted'[1])]_vars

\* C13: the half_inning_start that follows play_ball has been accepted, and
\* its document shows a pitcher with a mod.
C13_FirstHalfStarted ==
    /\ ~aborted
    /\ event = 2
    /\ game_update.playCount = 3
    /\ emitted[1].homePitcher = "hp"
    /\ emitted[1].homePitcherMod = "COFFEE_RALLY"

\* Snapshots that differ from the running document in the fields the code
\* reads from a snapshot (baseRunners, basesOccupied, the batter counts),
\* with the running one and none.
VariedSnapshots(self) ==
    SomeSnapshots(self) \cup
    { Snapshot(Runners(self),
               [i \in 1..Len(self.game_update.basesOccupied) |->
                    self.game_update.basesOccupied[i] + 1],
               self.game_update.awayTeamBatterCount - 1,
               self.game_update.homeTeamBatterCount - 1),
      Snapshot(<<>>, <<>>, self.game_update.awayTeamBatterCount,
               self.game_update.homeTeamBatterCount) }

\* Events of every type but hit, flyout, ground out and strikeout; of the
\* steals the successful ones.
SnapshotFreeEvents(self) ==
    LET g == self.game_update
    IN  {FeedEvent(0, Text("Let's Go!")), FeedEvent(1, Text("Play ball!")),
         FeedEvent(25, Text("The Electricity zaps a strike away!")),
         FeedEvent(73, Text("peanut flavor text")),
         FeedEvent(92, Text("superyummy flavor text")),
         FeedEvent(39, [bean |-> <<"Ann", "Flat White">>,
                        mod |-> <<"Ann", "Wired">>]),
         FeedEvent(52, [data |-> "siphon",
                        target |-> <<"Cy", "Cy", "Bo", "hitting">>,
                        action |-> [data |-> "blooddrain_strike",
                                    children |-> <<"Cy">>]]),
         FeedEvent(28, OutingText(g.inning + 1)),
         FeedEvent(11, ScoreText(self.away.nickname, g.awayScore,
                                 self.home.nickname, g.homeScore)),
         FeedEvent(11, ScoreText(self.home.nickname, g.homeScore,
                                 self.away.nickname, g.awayScore))}
        \cup {FeedEvent(2, HalfInningText(half, inning, team_name)) :
                half \in {"Top", "Bottom"},
                inning \in {g.inning + 1, g.inning + 2},
                team_name \in {g.awayTeamName, g.homeTeamName}}
        \cup {BatterUpEvent(<<>>, batting_team(self).lineup[i].name,
                            batting_team(self).nickname, w) :
                i \in 1..Len(batting_team(self).lineup),
                w \in {<<>>, <<"Bat">>}}
        \cup {BatterUpEvent(<< <<Ghost.name,
                                 batting_team(self).lineup[i].name>> >>,
                            Ghost.name, batting_team(self).nickname, <<>>) :
                i \in 1..Len(batting_team(self).lineup)}
        \cup {FeedEvent(14, CountText("Ball", g.atBatBalls + 1,
                                      g.atBatStrikes)),
              FeedEvent(13, CountText("Strike, looking", g.atBatBalls,
                                      g.atBatStrikes + 1)),
              FeedEvent(15, CountText("Foul Ball", g.atBatBalls,
                                      g.atBatStrikes)),
              FeedEvent(15, CountText("Foul Ball", g.atBatBalls,
                                      g.atBatStrikes + 1))}
        \cup {FeedEvent(5, [walk |-> <<BatterName(self)>>, rest |-> rest]) :
                rest \in Scores(self, "score",
                                RunnerNames(self) \cup {BatterName(self)})}
        \cup {HomeRunEvent(BatterName(self), hr_type, rest) :
                hr_type \in {[data |-> "solo_hr"]}
                            \cup {[data |-> "multi_hr", count |-> k] :
                                    k \in 2..MaxHomeRun},
                rest \in Extras({BatterName(self)})}
        \cup UNION {
                {StealEvent("stolen_base", g.baseRunnerNames[i],
                            NameOfBase(g.basesOccupied[i] + 1), b) :
                    b \in {<<>>, <<Blaserunning(g.baseRunnerNames[i])>>}}
                : i \in {j \in 1..Len(g.basesOccupied) :
                            g.basesOccupied[j] + 1 \in BaseNums} }
        \cup {MildPitchEvent(PitcherName(self),
                             [data |-> "ball",
                              children |-> <<g.atBatBalls + 1,
                                             g.atBatStrikes>>], rest) :
                rest \in Scores(self, "score", RunnerNames(self))}
        \cup {MildPitchEvent(PitcherName(self),
                             [data |-> "walk",
                              children |-> <<BatterName(self)>>], <<>>)}

\* C14: for every event that is not a hit, a fielding out, a strikeout or a
\* caught stealing, update() leaves the same object, the same flags and
\* returns the same document whatever the snapshot, or without one.
C14_SnapshotIgnored ==
    \A feed_event \in SnapshotFreeEvents(Self) :
        \A snapshot \in VariedSnapshots(Self) :
            update(Self, feed_event, snapshot)
                = update(Self, feed_event, NoSnapshot)

\* C14: a walk is accepted with a snapshot that differs from the running
\* document, in a state where the snapshot tells the result of a fly out.
C14_SnapshotMatters ==
    /\ ~aborted
    /\ expects_pitch
    /\ game_update.baserunnerCount > 0
    /\ \E snapshot \in VariedSnapshots(Self) \ SomeSnapshots(Self) :
        /\ update(Self, FeedEvent(5, [walk |-> <<BatterName(Self)>>,
                                      rest |-> <<>>]), snapshot).ok
        /\ update(Self, FieldingOut(7, "flyout_full", BatterName(Self),
                                    fielding_team(Self).lineup[1].name, <<>>),
                  snapshot)
            # update(Self, FieldingOut(7, "flyout_full", BatterName(Self),
                                       fielding_team(Self).lineup[1].name,
                                       <<>>),
                     NoSnapshot)

\* C16: the half_inning_start that follows play_ball starts the top of
\* inning 0 with phase 6; every accepted half_inning_start flips topOfInning,
\* raises inning by 1 when it starts a top half and keeps it when it starts a
\* bottom half, and resets halfInningScore; once play_ball is past, inning
\* never decreases.
C16_HalfInningsAlternate ==
    /\ [][Accepted /\ event' = 2 =>
            /\ game_update'.topOfInning = ~game_update.topOfInning
            /\ game_update'.inning =
                    IF game_update'.topOfInning
                    THEN game_update.inning + 1 ELSE game_update.inning
            /\ game_update'.halfInningScore = 0
            /\ game_update'.phase = 6
            /\ event = 1 =>
                    game_update'.topOfInning /\ game_update'.inning = 0]_vars
    /\ [][~expects_lets_go /\ ~expects_play_ball =>
            game_update'.inning >= game_update.inning]_vars

\* C16: the top of the second inning has started, after a top and a bottom
\* half and an inning end.
C16_SecondInningStarted ==
    /\ ~aborted
    /\ event = 2
    /\ game_update.topOfInning
    /\ game_update.inning = 1

Flags ==
    <<expects_lets_go, expects_play_ball, expects_half_inning_start,
      expects_batter_up, expects_pitch, expects_inning_end, expects_game_end>>

\* The event accepted last is an out: a strikeout, a fly out, a ground out
\* or a caught stealing.
OutEvent ==
    \/ event \in {6, 7, 8}
    \/ event = 4 /\ game_update.lastUpdate.data = "caught_stealing"

\* _end_half_inning has run: it writes phase 3, and _end_game after it 7.
HalfOver == game_update.phase \in {3, 7}

\* inning >= 8 and the batting team has the lower score
BattersTrail ==
    /\ game_update.inning >= 8
    /\ game_update[prefix(Self) \o "Score"]
            < game_update[prefix_negate(Self) \o "Score"]

\* C17: when an out ends a half-inning exactly one flag is set: the one of
\* game_score if inning >= 8 and the team that batted trails, else the one of
\* half_inning_start after a top half, else the one of inning_end; the
\* bases are empty, halfInningOuts is 0, and neither batter_up nor a pitch
\* event is expected.  The strikeout at one out less than the team's outs
\* ends the half.
C17_AfterHalfInning ==
    /\ [][Accepted /\ OutEvent' /\ HalfOver' =>
            /\ Cardinality({i \in 1..7 : Flags'[i]}) = 1
            /\ IF BattersTrail' THEN expects_game_end'
               ELSE IF game_update'.topOfInning
                    THEN expects_half_inning_start'
                    ELSE expects_inning_end'
            /\ game_update'.baseRunners = <<>>
            /\ game_update'.baseRunnerNames = <<>>
            /\ game_update'.baseRunnerMods = <<>>
            /\ game_update'.basesOccupied = <<>>
            /\ game_update'.halfInningOuts = 0
            /\ \A code \in {12, 92, 4, 5, 6, 7, 8, 9, 10, 13, 14, 15, 25,
                            27, 39, 52, 73} : ~Required(code)']_vars
    /\ [][Accepted /\ event' = 6 /\ game_update.halfInningOuts + 1 = BattingOuts
            => HalfOver']_vars

\* C17: a strikeout has ended a bottom half: the end of the inning is
\* expected.
C17_BottomHalfStruckOut ==
    /\ ~aborted
    /\ event = 6
    /\ HalfOver
    /\ ~game_update.topOfInning
    /\ expects_inning_end

\* C18: a standard strikeout is accepted only at one strike less than the
\* batting team's strikes; after an accepted strikeout that does not end the
\* half, halfInningOuts is 1 higher, the count is 0-0, the batter fields are
\* blank, the baserunner lists are as before and batter_up is expected.
C18_Strikeout ==
    [][Accepted /\ event' = 6 =>
        /\ game_update'.lastUpdate.data = "strikeout" =>
                game_update.atBatStrikes + 1 = BattingStrikes
        /\ ~HalfOver' =>
            /\ game_update'.halfInningOuts = game_update.halfInningOuts + 1
            /\ game_update'.atBatBalls = 0
            /\ game_update'.atBatStrikes = 0
            /\ Blank("away")' /\ Blank("home")'
            /\ game_update'.baseRunners = game_update.baseRunners
            /\ game_update'.baseRunnerNames = game_update.baseRunnerNames
            /\ game_update'.baseRunnerMods = game_update.baseRunnerMods
            /\ game_update'.basesOccupied = game_update.basesOccupied
            /\ game_update'.baserunnerCount = game_update.baserunnerCount
            /\ {i \in 1..7 : Flags'[i]} = {4}]_vars

\* C18: a batter has struck out swinging with a runner on base, for the
\* first out of three.
C18_FirstOutWithRunner ==
    /\ ~aborted
    /\ event = 6
    /\ game_update.lastUpdate.data = "strikeout"
    /\ game_update.halfInningOuts = 1
    /\ BattingOuts = 3
    /\ game_update.baserunnerCount > 0
    /\ expects_batter_up

\* num_scores of the home run description accepted last
HomeRunScores(document) ==
    IF document.lastUpdate.hr_type.data = "solo_hr" THEN 1
    ELSE document.lastUpdate.hr_type.count

\* C19: a home run that announces num_scores runs is accepted only with
\* num_scores - 1 runners on base; after it the baserunner lists are empty,
\* the batting team's score, halfInningScore and the inning score of the
\* half are num_scores higher, the fielding team's score is as before,
\* halfInningOuts is as before unless a free refill is announced, and the
\* at-bat has ended.
C19_HomeRun ==
    [][Accepted /\ event' = 9 =>
        /\ Len(game_update.baseRunners) = HomeRunScores(game_update') - 1
        /\ game_update'.baseRunners = <<>>
        /\ game_update'.baseRunnerNames = <<>>
        /\ game_update'.baseRunnerMods = <<>>
        /\ game_update'.basesOccupied = <<>>
        /\ game_update'.baserunnerCount = 0
        /\ game_update'[prefix(Self) \o "Score"] =
                game_update[prefix(Self) \o "Score"]
                    + HomeRunScores(game_update') * FifthsPerRun
        /\ game_update'.halfInningScore =
                game_update.halfInningScore
                    + HomeRunScores(game_update') * FifthsPerRun
        /\ game_update'[top_or_bottom(Self) \o "InningScore"] =
                game_update[top_or_bottom(Self) \o "InningScore"]
                    + HomeRunScores(game_update') * FifthsPerRun
        /\ game_update'[prefix_negate(Self) \o "Score"] =
                game_update[prefix_negate(Self) \o "Score"]
        /\ game_update'.lastUpdate.rest = <<>> =>
                game_update'.halfInningOuts = game_update.halfInningOuts
        /\ game_update'.atBatBalls = 0 /\ game_update'.atBatStrikes = 0
        /\ Blank("away")' /\ Blank("home")'
        /\ expects_batter_up' /\ ~expects_pitch']_vars

\* C19: a 3-run home run has been accepted, with two runners on base.
C19_ThreeRunHomeRun ==
    /\ ~aborted
    /\ event = 9
    /\ HomeRunScores(game_update) = 3
    /\ game_update.scoreUpdate = 3 * FifthsPerRun
    /\ game_update.halfInningScore = 3 * FifthsPerRun

BattingBases == game_update[prefix(Self) \o "Bases"]

BattingScore == game_update[prefix(Self) \o "Score"]

FieldingScore == game_update[prefix_negate(Self) \o "Score"]

\* The runner at `i` has stolen `base_stolen`, which is home when `scores`:
\* what becomes of the baserunner lists (a free refill of the extras may
\* rewrite the mods shown for the runners who stay).
Stolen(i, base_stolen, scores) ==
    IF scores
    THEN /\ game_update'.baseRunners = Pop(game_update.baseRunners, i)
         /\ game_update'.baseRunnerNames = Pop(game_update.baseRunnerNames, i)
         /\ Len(game_update'.baseRunnerMods) = Len(game_update.baseRunnerMods) - 1
         /\ game_update'.basesOccupied = Pop(game_update.basesOccupied, i)
    ELSE /\ game_update'.baseRunners = game_update.baseRunners
         /\ game_update'.baseRunnerNames = game_update.baseRunnerNames
         /\ game_update'.basesOccupied =
                [game_update.basesOccupied EXCEPT ![i] = base_stolen]

\* C20: a stolen_base for base b is accepted only with a runner of the
\* announced name on base b - 1; that runner moves to b and no other runner
\* moves; when b is the last base of the batting team the runner is taken
\* off the bases and the team scores 1 run, otherwise the runner stays on
\* base b and, without blaserunning, no score changes (blaserunning adds a
\* fifth of a run to the batting team in either case).
C20_StolenBase ==
    [][Accepted /\ event' = 4
            /\ game_update'.lastUpdate.data = "stolen_base" =>
        LET stealer_name == game_update'.lastUpdate.children[1]
            base_stolen ==
                BASE_NUM_FOR_NAME[game_update'.lastUpdate.children[2]]
            extras == game_update'.lastUpdate.extras
            blaserunning == extras # <<>> /\ extras[1].data = "blaserunning"
            scores == base_stolen = BattingBases - 1
        IN  /\ \E i \in 1..Len(game_update.basesOccupied) :
                    /\ game_update.baseRunnerNames[i] = stealer_name
                    /\ game_update.basesOccupied[i] = base_stolen - 1
                    /\ Stolen(i, base_stolen, scores)
            /\ BattingScore' = BattingScore
                    + (IF scores THEN FifthsPerRun ELSE 0)
                    + (IF blaserunning THEN 1 ELSE 0)
            /\ FieldingScore' = FieldingScore]_vars

\* C20: a runner has stolen the last base, without blaserunning, and scored.
C20_StoleHome ==
    /\ ~aborted
    /\ event = 4
    /\ game_update.lastUpdate.data = "stolen_base"
    /\ game_update.lastUpdate.children[2] = "fourth"
    /\ game_update.lastUpdate.extras = <<>>
    /\ game_update.scoreUpdate = FifthsPerRun
    /\ BattingScore = FifthsPerRun

\* C21: a caught_stealing that does not end the half-inning removes exactly
\* the caught runner (the runner of the announced name on the base before
\* the announced one) from the four baserunner lists, raises halfInningOuts
\* by one and leaves the at-bat alone: the batter's id, name and mod, the
\* count, the haunter, both batter_index and expects_pitch.
C21_CaughtStealing ==
    [][Accepted /\ event' = 4
            /\ game_update'.lastUpdate.data = "caught_stealing"
            /\ ~HalfOver' =>
        /\ \E i \in 1..Len(game_update.basesOccupied) :
                /\ game_update.baseRunnerNames[i] =
                        game_update'.lastUpdate.children[1]
                /\ game_update.basesOccupied[i] + 1 =
                    BASE_NUM_FOR_NAME[game_update'.lastUpdate.children[2]]
                /\ game_update'.baseRunners = Pop(game_update.baseRunners, i)
                /\ game_update'.baseRunnerNames =
                        Pop(game_update.baseRunnerNames, i)
                /\ game_update'.baseRunnerMods =
                        Pop(game_update.baseRunnerMods, i)
                /\ game_update'.basesOccupied =
                        Pop(game_update.basesOccupied, i)
        /\ game_update'.halfInningOuts = game_update.halfInningOuts + 1
        /\ \A field \in {"Batter", "BatterName", "BatterMod"} :
            \A side \in {"away", "home"} :
                game_update'[side \o field] = game_update[side \o field]
        /\ game_update'.atBatBalls = game_update.atBatBalls
        /\ game_update'.atBatStrikes = game_update.atBatStrikes
        /\ haunter' = haunter
        /\ away'.batter_index = away.batter_index
        /\ home'.batter_index = home.batter_index
        /\ expects_pitch' = expects_pitch]_vars

\* C21: a runner was caught stealing for the first out of three, with a
\* ball already counted for the batter, and the at-bat goes on.
C21_CaughtWithBallCounted ==
    /\ ~aborted
    /\ event = 4
    /\ game_update.lastUpdate.data = "caught_stealing"
    /\ game_update.halfInningOuts = 1
    /\ game_update.atBatBalls = 1
    /\ game_update.baserunnerCount = 0
    /\ expects_pitch

\* C22: when a caught stealing ends a half-inning, whatever snapshot comes
\* with it, the batting team's TeamBatterCount and batter_index each go
\* down by one, and the first batter_up of that team's next half calls the
\* lineup slot that was at bat when the half ended.
C22_InterruptedBatterReplays ==
    /\ [][Accepted /\ event' = 4
            /\ game_update'.lastUpdate.data = "caught_stealing"
            /\ HalfOver' =>
            /\ game_update'[prefix(Self) \o "TeamBatterCount"] =
                    game_update[prefix(Self) \o "TeamBatterCount"] - 1
            /\ batting_team(Self)'.batter_index =
                    batting_team(Self).batter_index - 1]_vars
    /\ [][Accepted /\ event' = 12 /\ interrupted[prefix(Self)] # None =>
            LineupAt(batting_team(Self)',
                     batting_team(Self)'.batter_index).id =
                interrupted[prefix(Self)]]_vars

\* C23: in every reachable state each team's batter_index is at least -1
\* and at most the last index of its lineup.
C23_BatterIndexRange ==
    /\ away.batter_index \in -1..(Len(away.lineup) - 1)
    /\ home.batter_index \in -1..(Len(home.lineup) - 1)

\* The events that _update_out handles in an at-bat: the batter strikes out,
\* flies out, grounds out or hits into a double play, a runner is put out on
\* a fielder's choice or caught stealing.
OutEvents(self) ==
    LET g == self.game_update
    IN  {FeedEvent(6, [data |-> "strikeout",
                       children |-> <<BatterName(self), "swinging">>])}
        \cup {FieldingOut(type[1], type[2], BatterName(self),
                          fielding_team(self).lineup[1].name, sc) :
                type \in {<<7, "flyout_full">>, <<8, "ground_out_full">>},
                sc \in Scores(self, "sacrifice", RunnerNames(self))}
        \cup {FeedEvent(7, [data |-> "fielders_choice",
                            out |-> <<r, "second">>,
                            scores |-> <<>>,
                            reaches |-> <<BatterName(self)>>]) :
                r \in RunnerNames(self)}
        \cup {FeedEvent(8, [data |-> "double_play_full",
                            out |-> <<BatterName(self)>>, scores |-> <<>>])}
        \cup {StealEvent("caught_stealing", g.baseRunnerNames[i],
                         NameOfBase(g.basesOccupied[i] + 1), <<>>) :
                i \in {j \in 1..Len(g.basesOccupied) :
                            g.basesOccupied[j] + 1 \in BaseNums}}

\* C24: an out that is accepted sets expects_reverberate of the batting
\* side from the snapshot and leaves the other side's alone: "None" without
\* a snapshot; "False" when the running TeamBatterCount (for a caught
\* stealing that ends the half: the count already decremented) equals the
\* snapshot's; "True", with the count lowered by one more, when it is
\* exactly one above the snapshot's; with any other difference the event is
\* refused.
C24_ReverberateFromSnapshot ==
    \A feed_event \in OutEvents(Self) :
        \A snapshot \in {NoSnapshot}
                \cup Snapshots(Self, -1..3,
                               {Runners(Self)} \cup Without(Runners(Self))) :
            Bind(update(Self, feed_event, snapshot), LAMBDA r :
            Bind(game_update[prefix(Self) \o "TeamBatterCount"]
                    - (IF /\ feed_event.type = 4
                          /\ game_update.halfInningOuts + 1 >= BattingOuts
                       THEN 1 ELSE 0),
                 LAMBDA running :
                r.ok =>
                    /\ r.expects_reverberate[prefix_negate(Self)] =
                            expects_reverberate[prefix_negate(Self)]
                    /\ r.game_update[prefix_negate(Self) \o "TeamBatterCount"]
                        = game_update[prefix_negate(Self) \o "TeamBatterCount"]
                    /\ IF ~snapshot.present
                       THEN /\ r.expects_reverberate[prefix(Self)] = "None"
                            /\ r.game_update[prefix(Self) \o "TeamBatterCount"]
                                = running
                       ELSE IF running =
                                snapshot[prefix(Self) \o "TeamBatterCount"]
                       THEN /\ r.expects_reverberate[prefix(Self)] = "False"
                            /\ r.game_update[prefix(Self) \o "TeamBatterCount"]
                                = running
                       ELSE /\ running =
                                snapshot[prefix(Self) \o "TeamBatterCount"] + 1
                            /\ r.expects_reverberate[prefix(Self)] = "True"
                            /\ r.game_update[prefix(Self) \o "TeamBatterCount"]
                                = running - 1))

\* C24: a strikeout was accepted with a snapshot one batter behind, in the
\* bottom half: the home side expects a reverberation, the away side, put
\* out without a snapshot in the top half, is unknown.
C24_HomeReverberates ==
    /\ ~aborted
    /\ event = 6
    /\ ~game_update.topOfInning
    /\ expects_reverberate.home = "True"
    /\ expects_reverberate.away = "None"


\* C25: a batter_up of a side whose expects_reverberate is "True" calls the
\* slot already current, a batter_up of a side whose expects_reverberate is
\* "False" or "None" advances batter_index by one modulo the lineup, and so
\* does, whatever the flag, a batter_up that follows a walk, a hit or a home
\* run of an at-bat begun after the side's last out (the reverberation, if
\* one was pending, was spent on that at-bat's batter_up).
C25_ReverberateOnce ==
    /\ [][Accepted /\ event' = 12
            /\ expects_reverberate[prefix(Self)] = "True"
            /\ ~called[prefix(Self)] =>
            batting_team(Self)'.batter_index =
                batting_team(Self).batter_index]_vars
    /\ [][Accepted /\ event' = 12
            /\ expects_reverberate[prefix(Self)] # "True" =>
            batting_team(Self)' = advance_batter(batting_team(Self))]_vars
    /\ [][Accepted /\ event' = 12 /\ event \in {5, 9, 10}
            /\ called[prefix(Self)] =>
            batting_team(Self)' = advance_batter(batting_team(Self))]_vars

\* C26: after every accepted event every base of basesOccupied is at least
\* 0 and below the last base (teamBases - 1) of the batting team: a runner
\* who gets there has scored and left the baserunner lists.
C26_RunnersBelowLastBase ==
    ~aborted =>
        \A i \in 1..Len(game_update.basesOccupied) :
            /\ game_update.basesOccupied[i] >= 0
            /\ game_update.basesOccupied[i] < BattingBases - 1

\* C27: a coffee_bean (39), no_state_change_pitch (73) or
\* no_state_change_batter_up (92) event that is accepted leaves the document
\* as it was but for lastUpdate, which becomes the event's description, the
\* scoreUpdate reset and the playCount increment of update(), and leaves the
\* expectation flags as they were.
C27_DescriptionOnly ==
    [][\A feed_event \in
            {FeedEvent(39, [bean |-> <<"Ann", "Flat White">>,
                            mod |-> <<"Ann", "Wired">>]),
             FeedEvent(73, Text("peanut flavor text")),
             FeedEvent(92, Text("superyummy flavor text"))} :
        Accepted /\ FedWith(feed_event) =>
            /\ game_update' =
                [game_update EXCEPT !.lastUpdate = feed_event.description,
                                    !.scoreUpdate = 0,
                                    !.playCount = @ + 1]
            /\ Flags' = Flags
            /\ expects_reverberate' = expects_reverberate]_vars

\* C28: a double play is accepted only when its first out leaves the half
\* open (halfInningOuts + 1 < teamOuts before the event).  With no free
\* refill among its items: when the second out leaves the half open too, the
\* event came with a snapshot, exactly one runner is removed besides the
\* announced scorers, the one whose id the running document has and the
\* snapshot has not, and halfInningOuts ends 2 higher; when the second out
\* completes the team's outs the half-inning ends.
C28_DoublePlay ==
    [][\A sc \in SeqsUpTo({[data |-> "sacrifice", name |-> n,
                            extras |-> <<>>] : n \in RunnerNames(Self)},
                          MaxScores) :
        \A snapshot \in OutSnapshots :
            /\ Accepted
            /\ Dispatch(FeedEvent(8, [data |-> "double_play_full",
                                      out |-> <<BatterName(Self)>>,
                                      scores |-> sc]),
                        snapshot)
            => /\ game_update.halfInningOuts + 1 < BattingOuts
               /\ IF game_update.halfInningOuts + 2 < BattingOuts
                  THEN /\ snapshot.present
                       /\ ~HalfOver'
                       /\ game_update'.halfInningOuts =
                            game_update.halfInningOuts + 2
                       /\ Bind(_update_scores(Self, sc).game_update,
                               LAMBDA scored :
                            \E id \in Range(scored.baseRunners) :
                                /\ Range(scored.baseRunners)
                                        \ Range(snapshot.baseRunners) = {id}
                                /\ \A list \in {"baseRunners",
                                                "baseRunnerNames",
                                                "baseRunnerMods"} :
                                    game_update'[list] =
                                        Pop(scored[list],
                                            Index(scored.baseRunners, id))
                                /\ Len(game_update'.basesOccupied) =
                                        Len(scored.basesOccupied) - 1)
                  ELSE /\ HalfOver'
                       /\ game_update'.halfInningOuts = 0
                       /\ game_update'.baseRunners = <<>>]_vars

\* C28: with no out of three yet, a double play with a sacrifice was
\* accepted: of the two runners one has scored and one is out.
C28_DoublePlayWithSacrifice ==
    /\ ~aborted
    /\ event = 8
    /\ game_update.lastUpdate.data = "double_play_full"
    /\ game_update.lastUpdate.scores # <<>>
    /\ game_update.halfInningOuts = 2
    /\ game_update.baserunnerCount = 0

\* The events that end in _maybe_advance_baserunners: the batter's hits and
\* the fielding outs of OutEvents that need no snapshot to tell who is out.
AdvancingEvents(self) ==
    {feed_event \in OutEvents(self) :
        /\ feed_event.type \in {7, 8}
        /\ feed_event.description.data # "double_play_full"}
    \cup {HitEvent(BatterName(self), base_name, <<>>, rest) :
            base_name \in DOMAIN BASE_NUM_FOR_HIT,
            rest \in Scores(self, "score", RunnerNames(self))}

\* Snapshots with the running batter counts and as many runners as the
\* running document, one more or one fewer.
LengthSnapshots(self) ==
    Snapshots(self, {0},
              {Runners(self), RunnersAndBatter(self)}
                \cup Without(Runners(self)))

\* C29 as claimed: a hit or fielding out that is accepted without a snapshot
\* is accepted with any snapshot; basesOccupied becomes the snapshot's when
\* that has the length of the list the handler computed, and stays as the
\* handler computed it when the lengths differ.
C29_BasesFromSnapshotOrKept ==
    \A feed_event \in AdvancingEvents(Self) :
        \A snapshot \in LengthSnapshots(Self) :
            Bind(update(Self, feed_event, NoSnapshot), LAMBDA computed :
            Bind(update(Self, feed_event, snapshot), LAMBDA r :
                computed.ok =>
                    /\ r.ok
                    /\ r.game_update.basesOccupied =
                        IF Len(snapshot.basesOccupied) =
                                Len(computed.game_update.basesOccupied)
                        THEN snapshot.basesOccupied
                        ELSE computed.game_update.basesOccupied))

\* C29, amended: a hit or fielding out that is accepted without a snapshot
\* is accepted with a snapshot exactly when the snapshot's basesOccupied has
\* the length of the list the handler computed, and basesOccupied is then
\* the snapshot's; with a snapshot of another length the event is refused.
C29_BasesFromSnapshotOrRefused ==
    \A feed_event \in AdvancingEvents(Self) :
        \A snapshot \in LengthSnapshots(Self) :
            Bind(update(Self, feed_event, NoSnapshot), LAMBDA computed :
            Bind(update(Self, feed_event, snapshot), LAMBDA r :
                computed.ok =>
                    IF Len(snapshot.basesOccupied) =
                            Len(computed.game_update.basesOccupied)
                    THEN /\ r.ok
                         /\ r.game_update.basesOccupied =
                                snapshot.basesOccupied
                    ELSE ~r.ok))

\* C29: with one runner on base, a single is accepted without a snapshot
\* and with a snapshot of two runners, whose bases it takes over, and is
\* refused with a snapshot of one runner.
C29_SingleWithSnapshots ==
    /\ ~aborted
    /\ expects_pitch
    /\ game_update.baserunnerCount = 1
    /\ \A snapshot \in Snapshots(Self, {0}, {RunnersAndBatter(Self)}) :
        Bind(update(Self, HitEvent(BatterName(Self), "Single", <<>>, <<>>),
                    snapshot),
             LAMBDA r : r.ok /\ r.game_update.basesOccupied =
                                    snapshot.basesOccupied)
    /\ \A snapshot \in Snapshots(Self, {0}, {Runners(Self)}) :
        ~update(Self, HitEvent(BatterName(Self), "Single", <<>>, <<>>),
                snapshot).ok
    /\ update(Self, HitEvent(BatterName(Self), "Single", <<>>, <<>>),
              NoSnapshot).ok

\* C30: once a game_score event has been accepted (finalized and
\* gameComplete are set) no event of any type is accepted, a second
\* game_score included: the document never changes again.
C30_GameOverTerminal ==
    [][game_update.finalized /\ game_update.gameComplete =>
            /\ ~Accepted
            /\ game_update' = game_update]_vars

\* C31: in every reachable state gameComplete implies inning >= 8 and
\* awayScore # homeScore: no game is finished before the ninth inning or
\* tied; and from the half-inning end that ends the game on (expects_game_end
\* is set) no step changes either score, nor would an event of any other
\* kind if it were fed then.
C31_CompleteGamesAreDecided ==
    /\ [](game_update.gameComplete =>
            /\ game_update.inning >= 8
            /\ game_update.awayScore # game_update.homeScore)
    /\ [][expects_game_end =>
            /\ game_update'.awayScore = game_update.awayScore
            /\ game_update'.homeScore = game_update.homeScore]_vars
    /\ [](expects_game_end =>
            \A feed_event \in SnapshotFreeEvents(Self) \cup OutEvents(Self)
                                \cup AdvancingEvents(Self) :
                \A snapshot \in SomeSnapshots(Self) :
                    Bind(update(Self, feed_event, snapshot), LAMBDA r :
                        r.ok =>
                            /\ r.game_update.awayScore = game_update.awayScore
                            /\ r.game_update.homeScore =
                                    game_update.homeScore))

\* C31: the game score was accepted after the top of the ninth, the home
\* team being ahead.
C31_HomeWinsInNine ==
    /\ ~aborted
    /\ event = 11
    /\ game_update.gameComplete
    /\ game_update.finalized
    /\ game_update.inning = 8
    /\ game_update.topOfInning
    /\ game_update.homeScore > game_update.awayScore

====
